---- MODULE Spec2Model ----
(***************************************************************************)
(* A model of the Signal & Virtual-Trade Engine of nexus-trading-bot:      *)
(*   - TradeManager (server/trade-manager.js), the position ledger;        *)
(*   - generateSignals (server/signal-engine.js), the confluence scan;     *)
(*   - POST /api/backtest (server/index.js), the backtest walk;            *)
(*   - CandleAggregator (server/candle-aggregator.js);                     *)
(*   - handleLiveTick, loadTradingState and saveTradingState, and the      *)
(*     routes POST /api/trade/open and /api/trade/close (server/index.js); *)
(*   - /buy, /sell and the inline buttons (server/telegram-commands.js).   *)
(*                                                                         *)
(* Numbers.  The program computes in IEEE doubles; the model computes in   *)
(* integers on a grid where every product the code forms is exact:         *)
(*   - a price is an integer number of price units;                        *)
(*   - a percentage (stopLoss, takeProfit) is an integer per-mille, and    *)
(*     every price a position is opened at is a multiple of 500 units, so  *)
(*     price * (1 - pct) is an integer for the even per-mille used here;   *)
(*   - a lot size is an integer number of tenths of a lot;                 *)
(*   - money (pnl, balance) is price units * tenths of a lot * contract    *)
(*     size, an integer.                                                   *)
(* Scores of the signal engine are counted in halves (the code adds 0.5).  *)
(***************************************************************************)
EXTENDS Integers, Sequences, FiniteSets, TLC

\* ------------------------------------------------------------------------
\* Bounds of the model
\* ------------------------------------------------------------------------

\* The ids openTrade hands out are at most MaxTrades.
MaxTrades == 2

\* generateSignals scans ScanLen candles (indices 30 .. 30 + ScanLen - 1).
ScanLen == 6

\* A backtest walks BtTail candles after the 30 warm-up candles.
BtTail == 4

\* An aggregator is handed at most MaxTicks ticks.
MaxTicks == 3

\* The candles of ScoreKinds a scan of the scores goes over.
ScoreTail == 1

\* The longest candle sequence handed to enrichData.
EnrichLen == 35

\* ------------------------------------------------------------------------
\* Values
\* ------------------------------------------------------------------------

NULL == "null"

Types == {"BUY", "SELL"}

\* PAIRS: one currency pair and the metals symbol stand for the six symbols.
Pairs == {"EUR/USD", "XAU/USD"}

\* Prices openTrade is called with (multiples of 500 units).
OpenPrices == {200000}

\* Prices of ticks.  For a position opened at 200000
\* with the default percentages: BUY sl = 199600, tp = 200800;
\* SELL sl = 200400, tp = 199200.
TickPrices == {199200, 200000, 200800}

\* Prices of manual closes.
ClosePrices == {200400}

\* config.lotSize in tenths of a lot; 0 stands for an absent (falsy) value.
LotSizes == {0}

\* config.stopLoss in per-mille; 0 stands for an absent (falsy) value, the
\* only one the callers of openTrade in this repository pass.
DefaultStopLossCfgs == {0}

\* The negative value puts the stop-loss of a BUY above its take-profit (and
\* that of a SELL below), so that one tick can satisfy both conditions.
StopLossCfgs == {0, -6}

StartingBalances == {1000000}

VARIABLES
    \* TradeManager
    startingBalance,   \* this.startingBalance
    balance,           \* this.balance
    openPositions,     \* this.openPositions, a sequence of position records
    tradeLog,          \* this.tradeLog, a sequence of closed trades
    nextId,            \* this.nextId
    lastPrices,        \* this.lastPrices: pair -> latest price, 0 when unset
    returned,          \* what the last call returned: a sequence of records
    \* generateSignals(data, srLevels, pair)
    data,              \* the enriched candles, a function on 0 .. length - 1
    srLevels,          \* the support/resistance levels, a sequence
    scanIndex,         \* i of the scan loop
    signals,           \* the signals emitted so far
    lastSignalIndex,   \* a sequence: <<>> is -Infinity, <<k>> is index k
    lastSignalType,    \* NULL, "BUY" or "SELL"
    \* POST /api/backtest
    btReq,             \* the request body: pair, stopLoss, takeProfit, lotSize, balance
    btPc,              \* "idle", "processData", "walk" or "done"
    btIndex,           \* i of the walk
    btBalance,
    trades,
    equityCurve,
    openPos,           \* <<>> is null, <<p>> is position p
    btEvents,          \* history: <<"open" | "close", candle index>> per event
    btResult,          \* <<>>, or <<result>> once the statistics are computed
    \* CandleAggregator, and the aggregators map of server/index.js
    aggregators,       \* the tick symbols that have an aggregator
    currentCandle,     \* this.currentCandle: <<>> is null, <<c>> is candle c
    candles,           \* this.candles, the completed candles
    ticks,             \* history: the ticks handed to addTick, in order
    \* handleLiveTick
    currentData,       \* the enriched candles, a function on 0 .. length - 1
    currentSignals,    \* the signals of the previous tick
    processed,         \* history: per tick handled, whether the call returned
    \* data/trades.json
    snapshot,          \* <<>> when there is no file, <<state>> otherwise
    \* the request handlers that open positions
    reply,             \* the answer to the last request, NULL before any
    \* TwelveDataStream
    ws,                \* this.ws: "none" is null, else the state of the socket
    reconnectAttempts,
    maxReconnects,
    connected,
    timer,             \* the pending setTimeout: <<>>, or <<t>> with its delay
                       \* and the time elapsed since it was set, in ms
    reconnects,        \* history: the calls of connect by the timer since
                       \* the last open
    subscribers,       \* this.subscribers: per symbol, how many callbacks
    remote,            \* the symbols subscribed on the socket at the far end
    \* the mode of the server (server/index.js)
    currentPair,
    currentMode,       \* "STOP" or "SIMULATION"
    simulationInterval, \* the intervals of startSimulatedLive that are set
    signalHistory,
    delivered,         \* the tick delivered last: its source, its symbol,
                       \* the mode and the calls of handleLiveTick it made
    fetchCall,         \* the call of fetchWithRetry: its attempt, its requests
                       \* and its waits
    lastUpdateId,      \* TelegramCommandHandler: the update handled last
    alertsEnabled,     \* TelegramCommandHandler: whether signals are alerted
    activePair,        \* TelegramCommandHandler: the pair of its reports
    polls,             \* the calls of checkUpdates that have not returned
    updates,           \* the updates Telegram holds for the bot
    handled            \* history: the ids of the updates given to a handler

ledgerVars == <<startingBalance, balance, openPositions, tradeLog, nextId,
                lastPrices, returned>>

signalVars == <<data, srLevels, scanIndex, signals, lastSignalIndex,
                lastSignalType>>

btVars == <<btReq, btPc, btIndex, btBalance, trades, equityCurve, openPos,
            btEvents, btResult>>

aggVars == <<aggregators, currentCandle, candles, ticks>>

liveVars == <<currentData, currentSignals, processed>>

streamVars == <<ws, reconnectAttempts, maxReconnects, connected, timer,
                reconnects, subscribers, remote>>

clientVars == <<fetchCall, lastUpdateId, alertsEnabled, activePair, polls,
                updates, handled>>

hostVars == <<currentPair, currentMode, simulationInterval, signalHistory,
              delivered, clientVars>>

serverVars == <<aggVars, liveVars, snapshot, reply, streamVars, hostVars>>

vars == <<ledgerVars, signalVars, btVars, serverVars>>

\* ------------------------------------------------------------------------
\* TradeManager
\* ------------------------------------------------------------------------

getContractSize(pair) ==
    IF pair = "XAU/USD" THEN 100 ELSE 100000

\* price * (1 + pm/1000), exact on the grid of opening prices.
Scaled(price, pm) == (price * (1000 + pm)) \div 1000

\* config.x || default
OrDefault(v, default) == IF v = 0 THEN default ELSE v

NewPosition(id, type, pair, price, lotCfg, slCfg, tpCfg) ==
    LET lotSize == OrDefault(lotCfg, 1)
        slPct   == OrDefault(slCfg, 2)
        tpPct   == OrDefault(tpCfg, 4)
    IN  [ id           |-> id,
          type         |-> type,
          pair         |-> pair,
          entry        |-> price,
          lotSize      |-> lotSize,
          sl           |-> IF type = "BUY" THEN Scaled(price, -slPct)
                                           ELSE Scaled(price, slPct),
          tp           |-> IF type = "BUY" THEN Scaled(price, tpPct)
                                           ELSE Scaled(price, -tpPct),
          currentPrice |-> price,
          pnl          |-> 0 ]

openTrade(type, pair, price, lotCfg, slCfg) ==
    /\ nextId <= MaxTrades
    /\ LET position == NewPosition(nextId, type, pair, price, lotCfg, slCfg, 0)
       IN  /\ openPositions' = Append(openPositions, position)
           /\ returned' = <<position>>
    /\ nextId' = nextId + 1
    /\ UNCHANGED <<startingBalance, balance, tradeLog, lastPrices>>
    /\ UNCHANGED <<signalVars, btVars, serverVars>>

\* The profit of a position of `type` entered at `entry`, at `price`.
Pnl(type, pair, entry, price, lotSize) ==
    IF type = "BUY"
    THEN (price - entry) * lotSize * getContractSize(pair)
    ELSE (entry - price) * lotSize * getContractSize(pair)

\* A credit of the size of the profit or loss, whatever its sign.
CreditAbs(bal, pnl) == bal + (IF pnl < 0 THEN -pnl ELSE pnl)

\* this.balance += pnl
Credit(bal, pnl) == bal + pnl

\* A trade that made nothing counted as a loss.
ResultStrict(pnl) == IF pnl > 0 THEN "WIN" ELSE "LOSS"

\* result: pnl >= 0 ? "WIN" : "LOSS"
Result(pnl) == IF pnl >= 0 THEN "WIN" ELSE "LOSS"

\* _closePosition: the closed trade, given the balance before the close.
_closePosition(pos, exitPrice, exitReason, bal) ==
    LET pnl == Pnl(pos.type, pos.pair, pos.entry, exitPrice, pos.lotSize)
    IN  [ id           |-> pos.id,
          type         |-> pos.type,
          pair         |-> pos.pair,
          entry        |-> pos.entry,
          lotSize      |-> pos.lotSize,
          sl           |-> pos.sl,
          tp           |-> pos.tp,
          currentPrice |-> pos.currentPrice,
          exit         |-> exitPrice,
          pnl          |-> pnl,
          result       |-> Result(pnl),
          exitReason   |-> exitReason,
          balanceAfter |-> Credit(bal, pnl) ]

\* The SL/TP checks of updatePositions with the take-profit checks first.
TriggerTpFirst(pos, currentPrice) ==
    IF pos.type = "BUY" /\ currentPrice >= pos.tp THEN "Take Profit"
    ELSE IF pos.type = "SELL" /\ currentPrice <= pos.tp THEN "Take Profit"
    ELSE IF pos.type = "BUY" /\ currentPrice <= pos.sl THEN "Stop Loss"
    ELSE IF pos.type = "SELL" /\ currentPrice >= pos.sl THEN "Stop Loss"
    ELSE NULL

\* The SL/TP checks of updatePositions, in the order of the code: the exit
\* reason of the first check that matches, NULL when none does.
Trigger(pos, currentPrice) ==
    IF pos.type = "BUY" /\ currentPrice <= pos.sl THEN "Stop Loss"
    ELSE IF pos.type = "SELL" /\ currentPrice >= pos.sl THEN "Stop Loss"
    ELSE IF pos.type = "BUY" /\ currentPrice >= pos.tp THEN "Take Profit"
    ELSE IF pos.type = "SELL" /\ currentPrice <= pos.tp THEN "Take Profit"
    ELSE NULL

\* A test of the pair that lets every position through to the SL/TP checks.
SamePairAlways(pos, pair) == TRUE

\* The SL/TP checks are for the positions of the pair of the tick.
SamePair(pos, pair) == pos.pair = pair

\* A marking of every position with the incoming price.
PriceForPosIncoming(pos, pair, currentPrice, prices) == currentPrice

\* The price updatePositions marks a position with.  A pair without an
\* entry in lastPrices (undefined) and a price of 0 are both falsy.
PriceForPos(pos, pair, currentPrice, prices) ==
    IF pos.pair = pair THEN currentPrice
    ELSE IF pos.pair \in DOMAIN prices /\ prices[pos.pair] # 0
         THEN prices[pos.pair]
         ELSE pos.currentPrice

\* A marking that also trails the stop-loss of a BUY behind the price.
MarkedTrailing(pos, priceForPos) ==
    [pos EXCEPT
       !.currentPrice = priceForPos,
       !.pnl = Pnl(pos.type, pos.pair, pos.entry, priceForPos, pos.lotSize),
       !.sl = IF pos.type = "BUY" /\ priceForPos - 200 > pos.sl
              THEN priceForPos - 200 ELSE pos.sl]

\* The position marked to priceForPos: currentPrice and pnl are assigned,
\* every other field is left as it is.
Marked(pos, priceForPos) ==
    [pos EXCEPT
       !.currentPrice = priceForPos,
       !.pnl = Pnl(pos.type, pos.pair, pos.entry, priceForPos, pos.lotSize)]

\* The callback of the filter in updatePositions, applied to the positions
\* ps[k..] in order.  acc carries the positions kept, the trades closed in
\* this call, the balance and the trade log.
RECURSIVE FilterPositions(_, _, _, _, _, _)
FilterPositions(ps, k, pair, currentPrice, prices, acc) ==
    IF k > Len(ps) THEN acc
    ELSE
      LET priceForPos == PriceForPos(ps[k], pair, currentPrice, prices)
          pos == Marked(ps[k], priceForPos)
          reason == IF ~SamePair(pos, pair) THEN NULL
                    ELSE Trigger(pos, currentPrice)
      IN  IF reason = NULL
          THEN FilterPositions(ps, k + 1, pair, currentPrice, prices,
                 [acc EXCEPT !.open = Append(@, pos)])
          ELSE
            LET closed == _closePosition(pos, currentPrice, reason, acc.balance)
            IN  FilterPositions(ps, k + 1, pair, currentPrice, prices,
                  [ open    |-> acc.open,
                    closed  |-> Append(acc.closed, closed),
                    balance |-> closed.balanceAfter,
                    log     |-> Append(acc.log, closed) ])

updatePositions(pair, currentPrice) ==
    LET prices == [lastPrices EXCEPT ![pair] = currentPrice]
        acc == FilterPositions(openPositions, 1, pair, currentPrice, prices,
                 [ open |-> <<>>, closed |-> <<>>,
                   balance |-> balance, log |-> tradeLog ])
    IN  /\ lastPrices' = prices
        /\ openPositions' = acc.open
        /\ balance' = acc.balance
        /\ tradeLog' = acc.log
        /\ returned' = acc.closed
        /\ UNCHANGED <<startingBalance, nextId>>
        /\ UNCHANGED <<signalVars, btVars, serverVars>>

\* A search that settles for the first open position, whatever its id.
FindIndexFirst(ps, positionId) == IF Len(ps) > 0 THEN 1 ELSE 0

\* findIndex: the first index of the position with this id, 0 when none.
FindIndex(ps, positionId) ==
    IF \E k \in 1..Len(ps) : ps[k].id = positionId
    THEN CHOOSE k \in 1..Len(ps) :
           /\ ps[k].id = positionId
           /\ \A j \in 1..(k - 1) : ps[j].id # positionId
    ELSE 0

\* A splice that removes nothing.
SpliceNothing(ps, idx) == ps

\* splice(idx, 1)
Splice(ps, idx) ==
    [k \in 1..(Len(ps) - 1) |-> IF k < idx THEN ps[k] ELSE ps[k + 1]]

closePosition(positionId, currentPrice) ==
    LET idx == FindIndex(openPositions, positionId)
    IN  /\ IF idx = 0
           THEN /\ returned' = <<>>
                /\ UNCHANGED <<balance, openPositions, tradeLog>>
           ELSE LET closed == _closePosition(openPositions[idx], currentPrice,
                                             "Manual Close", balance)
                IN  /\ balance' = closed.balanceAfter
                    /\ tradeLog' = Append(tradeLog, closed)
                    /\ openPositions' = Splice(openPositions, idx)
                    /\ returned' = <<closed>>
        /\ UNCHANGED <<startingBalance, nextId, lastPrices>>
        /\ UNCHANGED <<signalVars, btVars, serverVars>>

\* new TradeManager(startingBalance)
LedgerInit ==
    /\ startingBalance \in StartingBalances
    /\ balance = startingBalance
    /\ openPositions = <<>>
    /\ tradeLog = <<>>
    /\ nextId = 1
    /\ lastPrices = [p \in Pairs |-> 0]
    /\ returned = <<>>


\* ------------------------------------------------------------------------
\* generateSignals (server/signal-engine.js)
\* ------------------------------------------------------------------------

\* An indicator field of a candle is <<>> when it is null (unavailable) and
\* <<v>> when it holds the number v.
None == <<>>

Some(v) == <<v>>

Val(x) == x[1]

Abs(x) == IF x < 0 THEN -x ELSE x

Min(a, b) == IF a < b THEN a ELSE b

COOLDOWN_CANDLES == 5

\* The index the scan starts at.
StartIndex == 30

\* data.length
Length(d) == Cardinality(DOMAIN d)

\* Math.abs(candle.close - level.price) / candle.close < 0.003
Near(candle, level) ==
    Abs(candle.close - level.price) * 1000 < 3 * candle.close

\* Step 1: what the levels k.. of srLevels add to srScore.
RECURSIVE SrScore(_, _, _)
SrScore(candle, levels, k) ==
    IF k > Len(levels) THEN 0
    ELSE
      LET level == levels[k]
          plus  == IF /\ Near(candle, level)
                      /\ level.type = "support"
                      /\ candle.close >= level.price
                   THEN level.strength ELSE 0
          minus == IF /\ Near(candle, level)
                      /\ level.type = "resistance"
                      /\ candle.close <= level.price
                   THEN level.strength ELSE 0
      IN  plus - minus + SrScore(candle, levels, k + 1)

\* Step 2 with the bands of +1 and -1 open at 30 and at 70.
RsiScoreOpen(candle) ==
    LET rsi == Val(candle.rsi)
    IN  IF rsi < 30 THEN 2
        ELSE IF rsi > 30 /\ rsi < 40 THEN 1
        ELSE IF rsi > 70 THEN -2
        ELSE IF rsi > 60 /\ rsi < 70 THEN -1
        ELSE 0

\* Step 2
RsiScore(candle) ==
    LET rsi == Val(candle.rsi)
    IN  IF rsi < 30 THEN 2
        ELSE IF rsi < 40 THEN 1
        ELSE IF rsi > 70 THEN -2
        ELSE IF rsi > 60 THEN -1
        ELSE 0

\* Step 3, in halves: the crossover is worth 2 (4 halves), the growing
\* histogram 0.5 (1 half).
MacdScore2(candle, prevCandle) ==
    LET crossover ==
          IF prevCandle.macd # None /\ prevCandle.macdSignal # None
          THEN LET prevDiff == Val(prevCandle.macd) - Val(prevCandle.macdSignal)
                   currDiff == Val(candle.macd) - Val(candle.macdSignal)
               IN  IF prevDiff <= 0 /\ currDiff > 0 THEN 4
                   ELSE IF prevDiff >= 0 /\ currDiff < 0 THEN -4
                   ELSE 0
          ELSE 0
        momentum ==
          IF candle.histogram # None /\ prevCandle.histogram # None
          THEN IF Abs(Val(candle.histogram)) > Abs(Val(prevCandle.histogram))
               THEN IF Val(candle.histogram) > 0 THEN 1 ELSE -1
               ELSE 0
          ELSE 0
    IN  crossover + momentum

\* Step 4: totalScore, in halves.
TotalScore2(d, levels, idx) ==
    2 * SrScore(d[idx], levels, 1) + 2 * RsiScore(d[idx])
      + MacdScore2(d[idx], d[idx - 1])

\* Math.min(100, Math.abs(totalScore) * 20)
Confidence(total2) == Min(100, Abs(total2) * 10)

\* The thresholds as strict inequalities.
SignalTypeAbove(total2) ==
    IF total2 > 6 /\ Confidence(total2) >= 40 THEN "BUY"
    ELSE IF total2 < -6 /\ Confidence(total2) >= 40 THEN "SELL"
    ELSE NULL

\* signalType: totalScore >= 3 is 6 halves.
SignalType(total2) ==
    IF total2 >= 6 /\ Confidence(total2) >= 40 THEN "BUY"
    ELSE IF total2 <= -6 /\ Confidence(total2) >= 40 THEN "SELL"
    ELSE NULL

\* The candle at idx is skipped when an indicator is unavailable.
Skipped(candle) ==
    candle.rsi = None \/ candle.macd = None \/ candle.macdSignal = None

\* signalType of the candle at idx: NULL when the candle is skipped or does
\* not reach the threshold.
Candidate(d, levels, idx) ==
    IF Skipped(d[idx]) THEN NULL
    ELSE SignalType(TotalScore2(d, levels, idx))

\* The cooldown test without the comparison of the types.
IsCooldownAnyType(signalType, idx, lastType, lastIndex) ==
    /\ lastIndex # None
    /\ idx - Val(lastIndex) < COOLDOWN_CANDLES

\* The cooldown test with a window one candle short.
IsCooldownShort(signalType, idx, lastType, lastIndex) ==
    /\ signalType = lastType
    /\ lastIndex # None
    /\ idx - Val(lastIndex) < COOLDOWN_CANDLES - 1

\* isCooldown; lastIndex = None is -Infinity, which is further than any
\* cooldown from every index.
IsCooldown(signalType, idx, lastType, lastIndex) ==
    /\ signalType = lastType
    /\ lastIndex # None
    /\ idx - Val(lastIndex) < COOLDOWN_CANDLES

MakeSignal(d, levels, idx, signalType) ==
    [ index      |-> idx,
      time       |-> d[idx].time,
      type       |-> signalType,
      price      |-> d[idx].close,
      confidence |-> Confidence(TotalScore2(d, levels, idx)),
      score2     |-> TotalScore2(d, levels, idx) ]

\* One iteration of the for loop of generateSignals.
ScanStep ==
    /\ scanIndex < Length(data)
    /\ LET signalType == Candidate(data, srLevels, scanIndex)
       IN  IF /\ signalType # NULL
              /\ ~IsCooldown(signalType, scanIndex, lastSignalType,
                             lastSignalIndex)
           THEN /\ signals' = Append(signals,
                      MakeSignal(data, srLevels, scanIndex, signalType))
                /\ lastSignalIndex' = Some(scanIndex)
                /\ lastSignalType' = signalType
           ELSE UNCHANGED <<signals, lastSignalIndex, lastSignalType>>
    /\ scanIndex' = scanIndex + 1
    /\ UNCHANGED <<data, srLevels, ledgerVars, btVars, serverVars>>

\* The for loop of generateSignals from index i on: acc is the signals
\* pushed so far.
RECURSIVE ScanFrom(_, _, _, _, _, _)
ScanFrom(d, levels, i, lastIndex, lastType, acc) ==
    IF i >= Length(d) THEN acc
    ELSE
      LET signalType == Candidate(d, levels, i)
      IN  IF signalType # NULL /\ ~IsCooldown(signalType, i, lastType, lastIndex)
          THEN ScanFrom(d, levels, i + 1, Some(i), signalType,
                        Append(acc, MakeSignal(d, levels, i, signalType)))
          ELSE ScanFrom(d, levels, i + 1, lastIndex, lastType, acc)

\* generateSignals(data, srLevels, pair): the value returned.
generateSignals(d, levels) == ScanFrom(d, levels, StartIndex, None, NULL, <<>>)

\* The enriched candles handed to the scan.  A kind gives the fields of a
\* candle but its time; the candle at index idx has time idx.
Candle(kind, idx) ==
    [ time       |-> idx,
      close      |-> kind.close,
      low        |-> kind.low,
      high       |-> kind.high,
      rsi        |-> kind.rsi,
      macd       |-> kind.macd,
      macdSignal |-> kind.macdSignal,
      histogram  |-> kind.histogram ]

Kind(close, low, high, rsi, macd, macdSignal, histogram) ==
    [ close |-> close, low |-> low, high |-> high, rsi |-> rsi,
      macd |-> macd, macdSignal |-> macdSignal, histogram |-> histogram ]

\* A candle before the indicators are warm.
WarmUpKind == Kind(200500, 200400, 200600, None, None, None, None)

\* At the support, oversold: srScore 3, rsiScore 2: BUY.
BuyKind == Kind(200000, 199900, 200100, Some(25), Some(0), Some(0), Some(0))

\* At the resistance, overbought: srScore -3, rsiScore -2: SELL.
SellKind == Kind(201000, 200900, 201100, Some(75), Some(0), Some(0), Some(0))

\* As BuyKind, but the rsi is unavailable: the candle is skipped.
NullKind == Kind(200000, 199900, 200100, None, Some(0), Some(0), Some(0))

\* Between the levels and within 0.3% of both (srScore 3 - 3), rsiScore 1,
\* macd above its signal with a histogram of 1: after a candle with
\* macd <= signal it is a bullish crossover with a growing histogram,
\* totalScore 3.5: BUY; after itself, totalScore 1: no signal.
CrossKind == Kind(200500, 200400, 200600, Some(35), Some(2), Some(1), Some(1))

SignalKinds == {BuyKind, SellKind, NullKind, CrossKind}

Levels ==
    << [price |-> 200000, type |-> "support", strength |-> 3],
       [price |-> 201000, type |-> "resistance", strength |-> 3] >>

\* The candle sequences of StartIndex warm-up candles followed by n candles
\* of the given kinds.
DataSets(n, kinds) ==
    { [idx \in 0..(StartIndex + n - 1) |->
         IF idx < StartIndex THEN Candle(WarmUpKind, idx)
                             ELSE Candle(tail[idx - StartIndex], idx)] :
      tail \in [0..(n - 1) -> kinds] }

\* The state on entry to the for loop.
ScanInit(n, kinds) ==
    /\ data \in DataSets(n, kinds)
    /\ srLevels = Levels
    /\ scanIndex = StartIndex
    /\ signals = <<>>
    /\ lastSignalIndex = None
    /\ lastSignalType = NULL

\* Candles for the scores around the thresholds.  The close is at the
\* support (srScore 3), at the resistance (srScore -3) or near no level;
\* the rsi is in each band and on the borders 30 and 70; macd, macdSignal
\* and histogram = macd - macdSignal are above, below, further above and
\* further below, so that a candle after another has a crossover (2), a
\* growing histogram (0.5), both or neither.
ScoreCloses == {200000, 201000, 205000}

ScoreRsis == {25, 30, 35, 50, 65, 70, 75}

ScoreMacds == {<<2, 1, 1>>, <<1, 2, -1>>, <<3, 1, 2>>, <<1, 3, -2>>}

ScoreKinds ==
    { Kind(close, close - 100, close + 100, Some(rsi), Some(m[1]),
           Some(m[2]), Some(m[3])) :
      close \in ScoreCloses, rsi \in ScoreRsis, m \in ScoreMacds }

\* The candle before them: no level near, rsi 50, macd above or below its
\* signal.
PrevKinds ==
    { Kind(205000, 204900, 205100, Some(50), Some(m[1]), Some(m[2]),
           Some(m[3])) : m \in {<<2, 1, 1>>, <<1, 2, -1>>} }

\* StartIndex warm-up candles, one candle of PrevKinds and n of ScoreKinds.
ScoreDataSets(n) ==
    { [idx \in 0..(StartIndex + n) |->
         IF idx < StartIndex THEN Candle(WarmUpKind, idx)
         ELSE IF idx = StartIndex THEN Candle(prev, idx)
         ELSE Candle(tail[idx - StartIndex - 1], idx)] :
      prev \in PrevKinds, tail \in [0..(n - 1) -> ScoreKinds] }

ScoreInit ==
    /\ data \in ScoreDataSets(ScoreTail)
    /\ srLevels = Levels
    /\ scanIndex = StartIndex
    /\ signals = <<>>
    /\ lastSignalIndex = None
    /\ lastSignalType = NULL

\* No scan.
ScanIdle ==
    /\ data = <<>>
    /\ srLevels = <<>>
    /\ scanIndex = StartIndex
    /\ signals = <<>>
    /\ lastSignalIndex = None
    /\ lastSignalType = NULL

\* ------------------------------------------------------------------------
\* POST /api/backtest (server/index.js)
\* ------------------------------------------------------------------------

\* No backtest request.
BtIdle ==
    /\ btReq = <<>>
    /\ btPc = "idle"
    /\ btIndex = 0
    /\ btBalance = 0
    /\ trades = <<>>
    /\ equityCurve = <<>>
    /\ openPos = <<>>
    /\ btEvents = <<>>
    /\ btResult = <<>>

\* The request bodies.  stopLoss and takeProfit are in per-mille, lotSize in
\* tenths of a lot.  With takeProfit 0.4% the candle of an opposite signal
\* closes the open position; with 0.6% it leaves it open.
BtRequests ==
    [ pair : Pairs, stopLoss : {2}, takeProfit : {4, 6}, lotSize : {2},
      balance : {1000000} ]

\* As BuyKind, with a low below the stop-loss of a BUY entered at its close.
BtBuyKind == Kind(200000, 199500, 200100, Some(25), Some(0), Some(0), Some(0))

\* No signal; the range covers the stop-loss and the take-profit of every
\* position.
WideKind == Kind(200500, 199000, 202000, Some(50), Some(0), Some(0), Some(0))

\* No signal; the low reaches the stop-loss of a BUY and the take-profit of
\* a SELL.
DownKind == Kind(200500, 199500, 200600, Some(50), Some(0), Some(0), Some(0))

BtKinds == {BtBuyKind, SellKind, WideKind, DownKind}

\* On receipt of the request: the candles are fetched and processData is
\* about to scan them.
BtInit ==
    /\ btReq \in BtRequests
    /\ btPc = "processData"
    /\ btIndex = 0
    /\ btBalance = 0
    /\ trades = <<>>
    /\ equityCurve = <<>>
    /\ openPos = <<>>
    /\ btEvents = <<>>
    /\ btResult = <<>>

\* processData has returned the signals (the scan has left its loop); the
\* walk starts.
BtStartWalk ==
    /\ btPc = "processData"
    /\ scanIndex >= Length(data)
    /\ btPc' = "walk"
    /\ btBalance' = btReq.balance
    /\ trades' = <<>>
    /\ equityCurve' = <<[trade |-> 0, balance |-> btReq.balance]>>
    /\ openPos' = <<>>
    /\ btIndex' = 0
    /\ UNCHANGED <<btReq, btEvents, btResult, signalVars, ledgerVars,
                   serverVars>>

Exit(exitPrice, exitReason) ==
    <<[exitPrice |-> exitPrice, exitReason |-> exitReason]>>

\* The SL/TP check with the take-profit tested first.
BtExitTpFirst(pos, candle) ==
    IF pos.type = "BUY"
    THEN IF candle.high >= pos.tp THEN Exit(pos.tp, "Take Profit")
         ELSE IF candle.low <= pos.sl THEN Exit(pos.sl, "Stop Loss")
         ELSE <<>>
    ELSE IF candle.low <= pos.tp THEN Exit(pos.tp, "Take Profit")
         ELSE IF candle.high >= pos.sl THEN Exit(pos.sl, "Stop Loss")
         ELSE <<>>

\* The SL/TP check of the open position against a candle: <<>> when the
\* position stays open.
BtExit(pos, candle) ==
    IF pos.type = "BUY"
    THEN IF candle.low <= pos.sl THEN Exit(pos.sl, "Stop Loss")
         ELSE IF candle.high >= pos.tp THEN Exit(pos.tp, "Take Profit")
         ELSE <<>>
    ELSE IF candle.high >= pos.sl THEN Exit(pos.sl, "Stop Loss")
         ELSE IF candle.low <= pos.tp THEN Exit(pos.tp, "Take Profit")
         ELSE <<>>

BtPnl(type, entry, exitPrice, lotSize) ==
    IF type = "BUY"
    THEN (exitPrice - entry) * lotSize * 100000
    ELSE (entry - exitPrice) * lotSize * 100000

\* A credit of the size of the profit or loss, whatever its sign.
BtCreditAbs(bal, pnl) == bal + (IF pnl < 0 THEN -pnl ELSE pnl)

\* btBalance += pnl
BtCredit(bal, pnl) == bal + pnl

BtTrade(pos, exit, bal, lotSize) ==
    LET pnl == BtPnl(pos.type, pos.entry, exit.exitPrice, lotSize)
    IN  [ type         |-> pos.type,
          pair         |-> pos.pair,
          entry        |-> pos.entry,
          entryTime    |-> pos.entryTime,
          sl           |-> pos.sl,
          tp           |-> pos.tp,
          exit         |-> exit.exitPrice,
          pnl          |-> pnl,
          result       |-> IF pnl >= 0 THEN "WIN" ELSE "LOSS",
          exitReason   |-> exit.exitReason,
          balanceAfter |-> BtCredit(bal, pnl) ]

\* A search that returns the first signal of the run, whatever its index.
FindSignalFirst(sigs, idx) == IF Len(sigs) > 0 THEN <<sigs[1]>> ELSE <<>>

\* signals.find((s) => s.index === i): <<>> when there is none.
FindSignal(sigs, idx) ==
    IF \E n \in 1..Len(sigs) : sigs[n].index = idx
    THEN << sigs[CHOOSE n \in 1..Len(sigs) :
                   /\ sigs[n].index = idx
                   /\ \A m \in 1..(n - 1) : sigs[m].index # idx] >>
    ELSE <<>>

BtOpen(signal, candle, req) ==
    [ type      |-> signal.type,
      pair      |-> req.pair,
      entry     |-> signal.price,
      entryTime |-> candle.time,
      sl        |-> IF signal.type = "BUY" THEN Scaled(signal.price, -req.stopLoss)
                                           ELSE Scaled(signal.price, req.stopLoss),
      tp        |-> IF signal.type = "BUY" THEN Scaled(signal.price, req.takeProfit)
                                           ELSE Scaled(signal.price, -req.takeProfit) ]

\* A walk that looks for a signal whether or not a position is open.
NoOpenPosAlways(pos) == TRUE

\* if (!openPos)
NoOpenPos(pos) == pos = <<>>

\* One iteration of the walk over the candles.
BtStep ==
    /\ btPc = "walk"
    /\ btIndex < Length(data)
    /\ LET candle   == data[btIndex]
           exit     == IF openPos # <<>> THEN BtExit(openPos[1], candle)
                                         ELSE <<>>
           closed   == exit # <<>>
           trade    == BtTrade(openPos[1], exit[1], btBalance, btReq.lotSize)
           afterSlTp == IF closed THEN <<>> ELSE openPos
           signal   == FindSignal(signals, btIndex)
           opens    == NoOpenPos(afterSlTp) /\ signal # <<>>
       IN  /\ btBalance' = IF closed THEN trade.balanceAfter ELSE btBalance
           /\ trades' = IF closed THEN Append(trades, trade) ELSE trades
           /\ equityCurve' =
                IF closed
                THEN Append(equityCurve,
                       [trade |-> Len(trades) + 1, balance |-> trade.balanceAfter])
                ELSE equityCurve
           /\ openPos' = IF opens THEN <<BtOpen(signal[1], candle, btReq)>>
                                  ELSE afterSlTp
           /\ btEvents' = btEvents
                \o (IF closed THEN << <<"close", btIndex>> >> ELSE <<>>)
                \o (IF opens THEN << <<"open", btIndex>> >> ELSE <<>>)
    /\ btIndex' = btIndex + 1
    /\ UNCHANGED <<btReq, btPc, btResult, signalVars, ledgerVars,
                   serverVars>>

RECURSIVE SumOf(_, _)
SumOf(ts, k) == IF k > Len(ts) THEN 0 ELSE ts[k].pnl + SumOf(ts, k + 1)

CountResult(ts, result) ==
    Cardinality({k \in 1..Len(ts) : ts[k].result = result})

\* A quotient the code computes in doubles: num / den.
Ratio(num, den) == [kind |-> "number", num |-> num, den |-> den]

Number(n) == Ratio(n, 1)

Infinity == [kind |-> "Infinity"]

\* trades.filter((t) => t.result === result)
WithResult(ts, result) == SelectSeq(ts, LAMBDA t : t.result = result)

\* The pnl of the trades.
Pnls(ts) == {ts[k].pnl : k \in 1..Len(ts)}

\* Math.min(...)
MinOf(S) == CHOOSE m \in S : \A x \in S : m <= x

\* Math.max(...)
MaxOf(S) == CHOOSE m \in S : \A x \in S : x <= m

\* The win rate without its guard against an empty trade list.
WinRateOfAny(ts) == Ratio(Len(WithResult(ts, "WIN")) * 100, Len(ts))

\* winRate
WinRate(ts) ==
    IF Len(ts) > 0 THEN Ratio(Len(WithResult(ts, "WIN")) * 100, Len(ts))
    ELSE Number(0)

\* avgWin and avgLoss: the mean pnl of the trades given.
AvgPnl(ts) == IF Len(ts) > 0 THEN Ratio(SumOf(ts, 1), Len(ts)) ELSE Number(0)

\* profitFactor of the winning and the losing trades: Math.abs of the
\* quotient of their sums.
QuotientOfSums(wins, losses) ==
    IF Len(losses) > 0
    THEN Ratio(Abs(SumOf(wins, 1)), Abs(SumOf(losses, 1)))
    ELSE IF Len(wins) > 0 THEN Infinity
    ELSE Number(0)

ProfitFactor(ts) ==
    QuotientOfSums(WithResult(ts, "WIN"), WithResult(ts, "LOSS"))

\* The statistics, once the walk is over.
BtFinish ==
    /\ btPc = "walk"
    /\ btIndex = Length(data)
    /\ btResult' = << [ pair         |-> btReq.pair,
                        trades       |-> trades,
                        wins         |-> CountResult(trades, "WIN"),
                        losses       |-> CountResult(trades, "LOSS"),
                        totalPnl     |-> SumOf(trades, 1),
                        winRate      |-> WinRate(trades),
                        avgWin       |-> AvgPnl(WithResult(trades, "WIN")),
                        avgLoss      |-> AvgPnl(WithResult(trades, "LOSS")),
                        profitFactor |-> ProfitFactor(trades),
                        maxDrawdown  |-> IF Len(trades) > 0
                                         THEN MinOf(Pnls(trades)) ELSE 0,
                        finalBalance |-> btBalance,
                        startBalance |-> btReq.balance,
                        equityCurve  |-> equityCurve ] >>
    /\ btPc' = "done"
    /\ UNCHANGED <<btReq, btIndex, btBalance, trades, equityCurve, openPos,
                   btEvents, signalVars, ledgerVars, serverVars>>

\* ------------------------------------------------------------------------
\* TradeManager.getStats (server/trade-manager.js)
\* ------------------------------------------------------------------------

\* The record getStats returns for a ledger.
Stats(log, open, bal, start) ==
    [ totalTrades   |-> Len(log),
      wins          |-> Len(WithResult(log, "WIN")),
      losses        |-> Len(WithResult(log, "LOSS")),
      winRate       |-> WinRate(log),
      totalPnl      |-> SumOf(log, 1),
      netPnl        |-> SumOf(log, 1),
      bestTrade     |-> IF Len(log) > 0 THEN MaxOf(Pnls(log)) ELSE 0,
      worstTrade    |-> IF Len(log) > 0 THEN MinOf(Pnls(log)) ELSE 0,
      avgWin        |-> AvgPnl(WithResult(log, "WIN")),
      avgLoss       |-> AvgPnl(WithResult(log, "LOSS")),
      profitFactor  |-> ProfitFactor(log),
      balance       |-> bal,
      startBalance  |-> start,
      openPositions |-> Len(open) ]

\* getStats()
getStats ==
    /\ returned' = <<Stats(tradeLog, openPositions, balance, startingBalance)>>
    /\ UNCHANGED <<balance, startingBalance, openPositions, tradeLog, nextId,
                   lastPrices>>
    /\ UNCHANGED <<signalVars, btVars, serverVars>>

\* ------------------------------------------------------------------------
\* CandleAggregator (server/candle-aggregator.js)
\* ------------------------------------------------------------------------

\* timeframeToMs("1min")
IntervalMs == 60000

\* The ticks.  1770000 falls in the bucket that starts at 1740000, 1800000
\* and 1830000 in the bucket that starts at 1800000, and 1860000 starts a
\* bucket.  A tick without a volume counts as volume 0 (tick.volume || 0).
TickTimes == {1770000, 1800000, 1830000, 1860000}

Volumes == {0, 3}

\* The symbol the server is subscribed to: currentPair, "XAU/USD" unless
\* configured otherwise.
LivePair == "XAU/USD"

Ticks ==
    [ symbol : {LivePair}, price : TickPrices, timestamp : TickTimes,
      volume : Volumes ]

Max(a, b) == IF a > b THEN a ELSE b

\* Math.floor(tick.timestamp / this.intervalMs) * this.intervalMs
CandleStart(timestamp) == (timestamp \div IntervalMs) * IntervalMs

\* The candle a tick opens.
NewCandle(tick) ==
    [ time   |-> CandleStart(tick.timestamp),
      open   |-> tick.price,
      high   |-> tick.price,
      low    |-> tick.price,
      close  |-> tick.price,
      volume |-> tick.volume ]

\* An update that leaves the high where it is.
UpdatedCandleKeepHigh(candle, tick) ==
    [ candle EXCEPT !.low = Min(candle.low, tick.price),
                    !.close = tick.price,
                    !.volume = candle.volume + tick.volume ]

\* The in-progress candle after a tick of its bucket.
UpdatedCandle(candle, tick) ==
    [ candle EXCEPT !.high = Max(candle.high, tick.price),
                    !.low = Min(candle.low, tick.price),
                    !.close = tick.price,
                    !.volume = candle.volume + tick.volume ]

\* An aggregator: its in-progress candle and its completed candles.
Aggregator(current, completed) ==
    [ currentCandle |-> current, candles |-> completed ]

\* addTick(tick): the aggregator after the tick.
AddTick(agg, tick) ==
    IF \/ agg.currentCandle = <<>>
       \/ agg.currentCandle[1].time # CandleStart(tick.timestamp)
    THEN Aggregator(<<NewCandle(tick)>>,
                    IF agg.currentCandle # <<>>
                    THEN Append(agg.candles, agg.currentCandle[1])
                    ELSE agg.candles)
    ELSE Aggregator(<<UpdatedCandle(agg.currentCandle[1], tick)>>, agg.candles)

\* Array.prototype.slice(start): a negative start counts from the end, and
\* the start is clamped to the array.
Slice(seq, start) ==
    LET from == IF start < 0 THEN Max(Len(seq) + start, 0)
                ELSE Min(start, Len(seq))
    IN  SubSeq(seq, from + 1, Len(seq))

\* slice(-count); -0 is 0, so a count of 0 slices from the start.
LastN(seq, count) == Slice(seq, -count)

\* getCandles(count): the completed candles, then the in-progress candle.
GetCandles(agg, count) == LastN(agg.candles \o agg.currentCandle, count)

\* No loaded history becomes the in-progress candle.
LoadHistoryAllCompleted(agg, historicalCandles) ==
    Aggregator(agg.currentCandle, historicalCandles)

\* loadHistory(historicalCandles): the last candle becomes the in-progress
\* candle; nothing is assigned to currentCandle when there is no candle.
LoadHistory(agg, historicalCandles) ==
    IF Len(historicalCandles) > 0
    THEN Aggregator(<<historicalCandles[Len(historicalCandles)]>>,
                    SubSeq(historicalCandles, 1, Len(historicalCandles) - 1))
    ELSE Aggregator(agg.currentCandle, <<>>)

\* get length()
AggregatorLength(agg) ==
    Len(agg.candles) + (IF agg.currentCandle # <<>> THEN 1 ELSE 0)

\* One call of addTick on the aggregator.
addTick(tick) ==
    /\ Len(ticks) < MaxTicks
    /\ LET agg == AddTick(Aggregator(currentCandle, candles), tick)
       IN  /\ currentCandle' = agg.currentCandle
           /\ candles' = agg.candles
    /\ ticks' = Append(ticks, tick)
    /\ UNCHANGED <<aggregators, liveVars, snapshot, reply,
                   streamVars, hostVars>>
    /\ UNCHANGED <<ledgerVars, signalVars, btVars>>

\* One call of loadHistory on the aggregator, before any tick.
loadHistory(historicalCandles) ==
    /\ ticks = <<>>
    /\ currentCandle = <<>>
    /\ candles = <<>>
    /\ LET agg == LoadHistory(Aggregator(currentCandle, candles),
                              historicalCandles)
       IN  /\ currentCandle' = agg.currentCandle
           /\ candles' = agg.candles
    /\ UNCHANGED <<aggregators, ticks, liveVars, snapshot, reply,
                   streamVars, hostVars>>
    /\ UNCHANGED <<ledgerVars, signalVars, btVars>>

\* One call of getCandles(count) on the aggregator.
getCandles(count) ==
    /\ returned' = << [ count   |-> count,
                        candles |-> GetCandles(Aggregator(currentCandle,
                                                          candles), count) ] >>
    /\ UNCHANGED <<balance, startingBalance, openPositions, tradeLog, nextId,
                   lastPrices>>
    /\ UNCHANGED <<signalVars, btVars, serverVars>>

\* ------------------------------------------------------------------------
\* TwelveDataStream (server/websocket-client.js)
\* ------------------------------------------------------------------------

\* this.maxReconnects = 10
MaxReconnects == 10

\* The time between two firings of the clock, in ms.
Second == 1000

RECURSIVE Pow2(_)
Pow2(n) == IF n = 0 THEN 1 ELSE 2 * Pow2(n - 1)

\* The backoff without its cap.
DelayUncapped(attempts) == Pow2(attempts) * 1000

\* Math.min(30000, Math.pow(2, this.reconnectAttempts) * 1000)
Delay(attempts) == Min(30000, Pow2(attempts) * 1000)

\* The stream as constructed.
StreamIdle ==
    /\ ws = "none"
    /\ reconnectAttempts = 0
    /\ maxReconnects = MaxReconnects
    /\ connected = FALSE
    /\ timer = <<>>
    /\ reconnects = 0
    /\ subscribers = <<>>
    /\ remote = {}

\* The server before any mode is started: currentPair is "XAU/USD" unless
\* configured otherwise.
\* No call of fetchWithRetry has been made.
NoCall == [pc |-> "idle", url |-> NULL, maxRetries |-> 0, attempt |-> 0,
           requests |-> 0, waits |-> <<>>, remaining |-> 0, status |-> 0]

HostIdle ==
    /\ currentPair = LivePair
    /\ currentMode = "STOP"
    /\ simulationInterval = 0
    /\ signalHistory = <<>>
    /\ delivered = <<>>
    /\ fetchCall = NoCall
    /\ lastUpdateId = 0
    /\ alertsEnabled = TRUE
    /\ activePair = "EUR/USD"
    /\ polls = <<>>
    /\ updates = <<>>
    /\ handled = <<>>

\* disconnect() has been called.
Disconnected == maxReconnects = 0

\* connect(), called by the server at its start and by nothing else but
\* the reconnect timer: a socket is created.
connect ==
    /\ ws = "none"
    /\ ~Disconnected
    /\ ws' = "connecting"
    /\ UNCHANGED <<reconnectAttempts, maxReconnects, connected, timer,
                   reconnects, subscribers, remote>>
    /\ UNCHANGED <<ledgerVars, signalVars, btVars, aggVars, liveVars,
                   snapshot, reply, hostVars>>

\* No symbol is subscribed when the socket opens.
ResubscribedNone(subs) == {}

\* for (const symbol of this.subscribers.keys()) this._subscribe(symbol)
Resubscribed(subs) == DOMAIN subs

\* The "open" event of the socket.
onOpen ==
    /\ ws = "connecting"
    /\ ws' = "open"
    /\ connected' = TRUE
    /\ reconnectAttempts' = 0
    /\ reconnects' = 0
    /\ remote' = Resubscribed(subscribers)
    /\ UNCHANGED <<maxReconnects, timer, subscribers>>
    /\ UNCHANGED <<ledgerVars, signalVars, btVars, aggVars, liveVars,
                   snapshot, reply, hostVars>>

\* The "close" event of the socket: of an open socket, of one that failed
\* to connect, or of one that disconnect() closed.
onClose ==
    /\ ws \in {"connecting", "open", "closing"}
    /\ ws' = "closed"
    /\ connected' = FALSE
    /\ remote' = {}
    /\ IF reconnectAttempts < maxReconnects
       THEN /\ timer' = <<[delay |-> Delay(reconnectAttempts), elapsed |-> 0]>>
            /\ reconnectAttempts' = reconnectAttempts + 1
       ELSE UNCHANGED <<timer, reconnectAttempts>>
    /\ UNCHANGED <<maxReconnects, reconnects, subscribers>>
    /\ UNCHANGED <<ledgerVars, signalVars, btVars, aggVars, liveVars,
                   snapshot, reply, hostVars>>

\* A second goes by while the timer is pending.
Elapse ==
    /\ timer # <<>>
    /\ timer[1].elapsed < timer[1].delay
    /\ timer' = <<[timer[1] EXCEPT !.elapsed = @ + Second]>>
    /\ UNCHANGED <<ws, reconnectAttempts, maxReconnects, connected,
                   reconnects, subscribers, remote>>
    /\ UNCHANGED <<ledgerVars, signalVars, btVars, aggVars, liveVars,
                   snapshot, reply, hostVars>>

\* setTimeout(() => this.connect(), delay) fires.
onTimeout ==
    /\ timer # <<>>
    /\ timer[1].elapsed >= timer[1].delay
    /\ timer' = <<>>
    /\ ws' = "connecting"
    /\ reconnects' = reconnects + 1
    /\ UNCHANGED <<reconnectAttempts, maxReconnects, connected, subscribers,
                   remote>>
    /\ UNCHANGED <<ledgerVars, signalVars, btVars, aggVars, liveVars,
                   snapshot, reply, hostVars>>

\* disconnect(): no close schedules a reconnect from now on; a timer that
\* is pending is left to fire.
disconnect ==
    /\ maxReconnects = MaxReconnects
    /\ maxReconnects' = 0
    /\ connected' = FALSE
    /\ ws' = IF ws \in {"connecting", "open"} THEN "closing" ELSE ws
    /\ UNCHANGED <<reconnectAttempts, timer, reconnects, subscribers,
                   remote>>
    /\ UNCHANGED <<ledgerVars, signalVars, btVars, aggVars, liveVars,
                   snapshot, reply, hostVars>>

\* The callbacks of a symbol are counted up to this many.
MaxCallbacks == 2

\* this.ws?.readyState === WebSocket.OPEN
SocketOpen == ws = "open"

\* isConnected()
isConnected == connected /\ ws = "open"

\* The callbacks of a symbol: (this.subscribers.get(symbol) || []).length
Callbacks(subs, symbol) == IF symbol \in DOMAIN subs THEN subs[symbol] ELSE 0

\* subscribe(symbol, callback) on the subscribers and the far end.
Subscribed(sub, symbol) ==
    [ subscribers |->
        [s \in DOMAIN sub.subscribers \cup {symbol} |->
           IF s = symbol THEN Callbacks(sub.subscribers, symbol) + 1
           ELSE sub.subscribers[s]],
      remote |-> IF symbol \notin DOMAIN sub.subscribers /\ SocketOpen
                 THEN sub.remote \cup {symbol} ELSE sub.remote ]

\* unsubscribe(symbol) on the subscribers and the far end.
Unsubscribed(sub, symbol) ==
    [ subscribers |->
        [s \in DOMAIN sub.subscribers \ {symbol} |-> sub.subscribers[s]],
      remote |-> IF SocketOpen THEN sub.remote \ {symbol} ELSE sub.remote ]

\* The subscribers and the far end as they are.
Subscriptions == [subscribers |-> subscribers, remote |-> remote]

\* subscribe(symbol, callback)
subscribe(symbol) ==
    /\ Callbacks(subscribers, symbol) < MaxCallbacks
    /\ subscribers' = Subscribed(Subscriptions, symbol).subscribers
    /\ remote' = Subscribed(Subscriptions, symbol).remote
    /\ UNCHANGED <<ws, reconnectAttempts, maxReconnects, connected, timer,
                   reconnects>>
    /\ UNCHANGED <<ledgerVars, signalVars, btVars, aggVars, liveVars,
                   snapshot, reply, hostVars>>

\* unsubscribe(symbol)
unsubscribe(symbol) ==
    /\ subscribers' = Unsubscribed(Subscriptions, symbol).subscribers
    /\ remote' = Unsubscribed(Subscriptions, symbol).remote
    /\ UNCHANGED <<ws, reconnectAttempts, maxReconnects, connected, timer,
                   reconnects>>
    /\ UNCHANGED <<ledgerVars, signalVars, btVars, aggVars, liveVars,
                   snapshot, reply, hostVars>>

\* ------------------------------------------------------------------------
\* Mode control (server/index.js): /api/mode/start, /api/mode/stop,
\* /api/mode/switch, the Telegram /pair command, and the two sources of
\* ticks.  A request is taken as one step: the await of getMarketData in its
\* middle is not a point where the model lets other events in.
\* ------------------------------------------------------------------------

\* The streams of the server: the subscriptions of tdStream and the number
\* of intervals of startSimulatedLive that are set and not cleared.
Streams ==
    [ subscribers |-> subscribers, remote |-> remote,
      intervals |-> simulationInterval ]

\* startSimulatedLive(): nothing when the interval is set.
startSimulatedLive(st) ==
    IF st.intervals > 0 THEN st ELSE [st EXCEPT !.intervals = 1]

\* stopSimulatedLive()
stopSimulatedLive(st) == [st EXCEPT !.intervals = 0]

\* if (config.twelveData.enabled && tdStream.isConnected())
\*   tdStream.subscribe(pair, handleLiveTick) else startSimulatedLive()
StartStream(st, pair) ==
    IF isConnected
    THEN LET sub == Subscribed(st, pair)
         IN  [st EXCEPT !.subscribers = sub.subscribers, !.remote = sub.remote]
    ELSE startSimulatedLive(st)

\* if (config.twelveData.enabled && tdStream.isConnected())
\*   tdStream.unsubscribe(pair) else stopSimulatedLive()
StopStream(st, pair) ==
    IF isConnected
    THEN LET sub == Unsubscribed(st, pair)
         IN  [st EXCEPT !.subscribers = sub.subscribers, !.remote = sub.remote]
    ELSE stopSimulatedLive(st)

\* The streams are assigned.
StreamsBecome(st) ==
    /\ \A symbol \in DOMAIN st.subscribers :
         st.subscribers[symbol] <= MaxCallbacks
    /\ subscribers' = st.subscribers
    /\ remote' = st.remote
    /\ simulationInterval' = st.intervals

\* What a request of mode control leaves alone.
ModeFrame ==
    /\ UNCHANGED <<ws, reconnectAttempts, maxReconnects, connected, timer,
                   reconnects, signalHistory, delivered, clientVars>>
    /\ UNCHANGED <<ledgerVars, signalVars, btVars, aggVars, liveVars,
                   snapshot, reply>>

\* POST /api/mode/start with mode SIMULATION and a pair.
modeStart(pair) ==
    /\ currentMode' = "SIMULATION"
    /\ currentPair' = pair
    /\ StreamsBecome(StartStream(Streams, pair))
    /\ ModeFrame

\* POST /api/mode/stop
modeStop ==
    /\ StreamsBecome(StopStream(Streams, currentPair))
    /\ currentMode' = "STOP"
    /\ UNCHANGED currentPair
    /\ ModeFrame

\* The switch of the pair while a mode is active: the old stream is
\* stopped, the new one started.
SwitchedStreams(oldPair, newPair) ==
    /\ currentPair' = newPair
    /\ StreamsBecome(StartStream(StopStream(Streams, oldPair), newPair))

Switched(oldPair, newPair) ==
    /\ SwitchedStreams(oldPair, newPair)
    /\ UNCHANGED currentMode
    /\ ModeFrame

\* POST /api/mode/switch with a pair: status 400 when no mode is active.
modeSwitch(pair) ==
    /\ currentMode # "STOP"
    /\ Switched(currentPair, pair)

\* commandHandler.onPairChange(newPair), the Telegram /pair command.
onPairChange(newPair) ==
    IF currentMode # "STOP"
    THEN SwitchedStreams(currentPair, newPair)
    ELSE /\ currentPair' = newPair
         /\ UNCHANGED <<subscribers, remote, simulationInterval>>

\* The /pair command arrives while nothing else of the server changes.
pairCommand(newPair) ==
    /\ onPairChange(newPair)
    /\ UNCHANGED currentMode
    /\ ModeFrame

\* What a tick leaves alone, handleLiveTick being taken for its calls only.
TickFrame ==
    /\ UNCHANGED <<streamVars, currentPair, currentMode, simulationInterval,
                   signalHistory, clientVars>>
    /\ UNCHANGED <<ledgerVars, signalVars, btVars, aggVars, liveVars,
                   snapshot, reply>>

\* The "message" event of the socket with a price of a symbol subscribed at
\* the far end: callbacks.forEach((cb) => cb(tick)).
onPrice(symbol) ==
    /\ ws = "open"
    /\ symbol \in remote
    /\ delivered' = << [ source |-> "stream", symbol |-> symbol,
                         mode   |-> currentMode,
                         calls  |-> Callbacks(subscribers, symbol) ] >>
    /\ TickFrame

\* The interval of startSimulatedLive fires, once per interval that is set.
onInterval ==
    /\ simulationInterval > 0
    /\ delivered' = << [ source |-> "timer", symbol |-> currentPair,
                         mode   |-> currentMode,
                         calls  |-> simulationInterval ] >>
    /\ TickFrame

\* ------------------------------------------------------------------------
\* fetchWithRetry (Twelve Data REST client)
\* ------------------------------------------------------------------------

\* async function fetchWithRetry(url, maxRetries = 3)
DefaultMaxRetries == 3

\* Math.pow(2, attempt) * 1000
Wait(attempt) == Pow2(attempt) * Second

\* The head of the for loop: the next request is sent while attempt <
\* maxRetries; after the loop the function throws "Max retries exceeded".
Looped(call) ==
    IF call.attempt < call.maxRetries
    THEN [call EXCEPT !.pc = "fetching", !.requests = @ + 1]
    ELSE [call EXCEPT !.pc = "thrown"]

\* What a step of fetchWithRetry leaves alone.
FetchFrame ==
    /\ UNCHANGED <<lastUpdateId, alertsEnabled, activePair, polls, updates,
                   handled>>
    /\ UNCHANGED <<currentPair, currentMode, simulationInterval,
                   signalHistory, delivered>>
    /\ UNCHANGED <<ledgerVars, signalVars, btVars, aggVars, liveVars,
                   snapshot, reply, streamVars>>

\* A call of fetchWithRetry(url, maxRetries), no other call being under way.
fetchWithRetry(url, maxRetries) ==
    /\ fetchCall.pc \in {"idle", "returned", "thrown"}
    /\ fetchCall' = Looped([NoCall EXCEPT !.url = url,
                                          !.maxRetries = maxRetries])
    /\ FetchFrame

\* await fetch(url) resolves with a response of the status: 429 starts the
\* wait, any other status returns resp.json().
onResponse(status) ==
    /\ fetchCall.pc = "fetching"
    /\ fetchCall' =
         IF status = 429
         THEN [fetchCall EXCEPT !.pc = "waiting", !.status = status,
                                !.waits = Append(@, Wait(fetchCall.attempt)),
                                !.remaining = Wait(fetchCall.attempt)]
         ELSE [fetchCall EXCEPT !.pc = "returned", !.status = status]
    /\ FetchFrame

\* A second of the wait passes.
Sleep ==
    /\ fetchCall.pc = "waiting"
    /\ fetchCall.remaining > Second
    /\ fetchCall' = [fetchCall EXCEPT !.remaining = @ - Second]
    /\ FetchFrame

\* The timer of the wait fires: continue, with attempt++.
onWaited ==
    /\ fetchCall.pc = "waiting"
    /\ fetchCall.remaining <= Second
    /\ fetchCall' = Looped([fetchCall EXCEPT !.attempt = @ + 1,
                                             !.remaining = 0])
    /\ FetchFrame

\* ------------------------------------------------------------------------
\* Market hours (server/market-hours.js).  A time is its UTC day of the week
\* (0 = Sunday .. 6 = Saturday) and its UTC hour, which is all the functions
\* read of a Date.
\* ------------------------------------------------------------------------

\* SESSIONS: the hours of opening and closing, UTC.
SESSIONS ==
    { [name |-> "Sydney",   open |-> 22, close |-> 7],
      [name |-> "Tokyo",    open |-> 0,  close |-> 9],
      [name |-> "London",   open |-> 8,  close |-> 17],
      [name |-> "New York", open |-> 13, close |-> 22] }

\* isSessionActive without the case of a session that crosses midnight.
isSessionActiveSameDay(now, session) ==
    now.hour >= session.open /\ now.hour < session.close

\* isSessionActive(now, session)
isSessionActive(now, session) ==
    IF session.open > session.close
    THEN now.hour >= session.open \/ now.hour < session.close
    ELSE now.hour >= session.open /\ now.hour < session.close

\* isWeekend(now)
isWeekend(now) ==
    IF now.day = 6 THEN TRUE
    ELSE IF now.day = 0 /\ now.hour < 22 THEN TRUE
    ELSE IF now.day = 5 /\ now.hour >= 22 THEN TRUE
    ELSE FALSE

\* isMarketOpen(now)
isMarketOpen(now) ==
    IF isWeekend(now) THEN FALSE
    ELSE \E session \in SESSIONS : isSessionActive(now, session)

\* A caller asks at the time now whether the market is open and whether it
\* is the weekend.
marketHours(now) ==
    /\ returned' = << [ now     |-> now,
                        open    |-> isMarketOpen(now),
                        weekend |-> isWeekend(now) ] >>
    /\ UNCHANGED <<startingBalance, balance, openPositions, tradeLog, nextId,
                   lastPrices>>
    /\ UNCHANGED <<signalVars, btVars, serverVars>>

\* ------------------------------------------------------------------------
\* Telegram commands (server/telegram-commands.js).  An id is a number, a
\* string or undefined, as JSON and the environment give it.
\* ------------------------------------------------------------------------

\* The ids of the model.
NumberId(n) == [t |-> "number", v |-> n]

StringId(str) == [t |-> "string", v |-> str]

Undefined == [t |-> "undefined"]

\* The decimal digits.
Digit == <<"0", "1", "2", "3", "4", "5", "6", "7", "8", "9">>

\* The decimal text of a natural number.
RECURSIVE Decimal(_)
Decimal(n) ==
    IF n < 10 THEN Digit[n + 1]
    ELSE Decimal(n \div 10) \o Digit[(n % 10) + 1]

\* String(x)
String(x) ==
    IF x.t = "number" THEN Decimal(x.v)
    ELSE IF x.t = "string" THEN x.v
    ELSE "undefined"

\* this.bot.chatId: process.env.TELEGRAM_CHAT_ID
ChatId == StringId("42")

\* The test of checkUpdates left out: every update is acted on.
AuthorizedAny(update) == TRUE

\* String(chatId) === String(this.bot.chatId), chatId being
\* update.callback_query.from?.id of a callback query and
\* update.message?.chat?.id of a message, which must have a text.
Authorized(update) == String(update.id) = String(ChatId)

\* Max of the polls of checkUpdates under way and of the updates sent.
MaxPolls == 2

MaxUpdates == 2

\* The price of a manual trade: PAIRS[pair].price while no tick has set
\* pairPrices.
CommandPrice == 200000

\* What a handler does before its first await.  /buy and a signal button
\* open a position of 0.1 lot when the market is open; /close closes the position of
\* the id; /pair sets the active pair and calls onPairChange; /alerts
\* toggles alertsEnabled.
Handle(update, marketOpen) ==
    LET opens == update.text \in {"/buy XAU/USD 0.1",
                                  "signal_buy_XAUUSD_2000.00"}
        idx == FindIndex(openPositions, 1)
    IN  /\ IF opens /\ marketOpen
           THEN /\ nextId <= MaxTrades
                /\ openPositions' =
                     Append(openPositions,
                            NewPosition(nextId, "BUY", LivePair,
                                        CommandPrice, 1, 0, 0))
                /\ nextId' = nextId + 1
                /\ lastPrices' = [lastPrices EXCEPT ![LivePair] = CommandPrice]
                /\ UNCHANGED <<balance, tradeLog>>
           ELSE IF update.text = "/close 1" /\ idx # 0
           THEN LET closed == _closePosition(openPositions[idx],
                                openPositions[idx].currentPrice,
                                "Manual Close", balance)
                IN  /\ balance' = closed.balanceAfter
                    /\ tradeLog' = Append(tradeLog, closed)
                    /\ openPositions' = Splice(openPositions, idx)
                    /\ UNCHANGED <<nextId, lastPrices>>
           ELSE UNCHANGED <<openPositions, nextId, lastPrices, balance,
                            tradeLog>>
        /\ IF update.text = "/pair XAU/USD"
           THEN /\ activePair' = LivePair
                /\ onPairChange(LivePair)
           ELSE UNCHANGED <<activePair, currentPair, subscribers, remote,
                            simulationInterval>>
        /\ alertsEnabled' = IF update.text = "/alerts" THEN ~alertsEnabled
                            ELSE alertsEnabled

\* Nothing is handled.
Unhandled ==
    UNCHANGED <<openPositions, nextId, lastPrices, balance, tradeLog,
                activePair, currentPair, subscribers, remote,
                simulationInterval, alertsEnabled>>

\* What a step of the Telegram client leaves alone.
TelegramFrame ==
    /\ UNCHANGED <<startingBalance, returned, fetchCall, currentMode,
                   signalHistory, delivered>>
    /\ UNCHANGED <<ws, reconnectAttempts, maxReconnects, connected, timer,
                   reconnects>>
    /\ UNCHANGED <<signalVars, btVars, aggVars, liveVars, snapshot, reply>>

\* Somebody sends the bot a message or presses a button: Telegram holds the
\* update under the next update_id.
sendUpdate(kind, id, text) ==
    /\ Len(updates) < MaxUpdates
    /\ updates' = Append(updates, [ update_id |-> Len(updates) + 1,
                                    kind      |-> kind,
                                    id        |-> id,
                                    text      |-> text ])
    /\ UNCHANGED <<lastUpdateId, polls, handled>>
    /\ Unhandled
    /\ TelegramFrame

\* The interval of startPolling fires: checkUpdates() sends getUpdates with
\* offset lastUpdateId + 1.  getUpdates is asked with timeout=1 and is taken
\* to answer within the 2 s of the interval, so no other call is fetching;
\* a handler may take longer than that.
checkUpdates ==
    /\ Len(polls) < MaxPolls
    /\ \A p \in 1..Len(polls) : polls[p].pc # "fetching"
    /\ polls' = Append(polls, [ pc |-> "fetching",
                                offset |-> lastUpdateId + 1,
                                result |-> <<>>, k |-> 0 ])
    /\ UNCHANGED <<lastUpdateId, updates, handled>>
    /\ Unhandled
    /\ TelegramFrame

\* The for loop of checkUpdates from the update k of the result to its next
\* await: lastUpdateId follows the updates passed, an update that is not
\* authorized is passed over, the first authorized one is given to its
\* handler, which runs to its first await; after the last update the call
\* returns.
ForLoop(p, result, k, marketOpen) ==
    LET Stops == {j \in k..Len(result) : Authorized(result[j])}
        stop == IF Stops = {} THEN Len(result) + 1 ELSE MinOf(Stops)
        last == IF stop <= Len(result) THEN stop ELSE Len(result)
    IN  /\ lastUpdateId' = IF last >= k THEN result[last].update_id
                           ELSE lastUpdateId
        /\ IF stop <= Len(result)
           THEN /\ polls' = [polls EXCEPT ![p] =
                               [ pc |-> "handling", offset |-> @.offset,
                                 result |-> result, k |-> stop ]]
                /\ handled' = Append(handled, result[stop].update_id)
                /\ Handle(result[stop], marketOpen)
           ELSE /\ polls' = Splice(polls, p)
                /\ UNCHANGED handled
                /\ Unhandled
        /\ UNCHANGED updates
        /\ TelegramFrame

\* getUpdates of the call p answers with the updates from its offset on.
onUpdates(p, marketOpen) ==
    /\ p <= Len(polls)
    /\ polls[p].pc = "fetching"
    /\ LET FromOffset(update) == update.update_id >= polls[p].offset
       IN  ForLoop(p, SelectSeq(updates, FromOffset), 1, marketOpen)

\* The handler the call p awaits returns: the loop goes on.
onHandled(p, marketOpen) ==
    /\ p <= Len(polls)
    /\ polls[p].pc = "handling"
    /\ ForLoop(p, polls[p].result, polls[p].k + 1, marketOpen)

\* No aggregator in the map, no live data, no file, no request, and the
\* stream as constructed.
ServerIdle ==
    /\ aggregators = {}
    /\ currentCandle = <<>>
    /\ candles = <<>>
    /\ ticks = <<>>
    /\ currentData = <<>>
    /\ currentSignals = <<>>
    /\ processed = <<>>
    /\ snapshot = <<>>
    /\ reply = NULL
    /\ StreamIdle
    /\ HostIdle

\* ------------------------------------------------------------------------
\* The indicators (server/indicators.js): calcEMA, calcRSI, calcMACD and
\* enrichData.  Which entries are null is computed as the code computes it.
\* The values are doubles in the code; here they are integers in hundredths
\* of a price unit, every division rounded down.
\* ------------------------------------------------------------------------

\* values[1] + ... + values[k]
RECURSIVE SumFirst(_, _)
SumFirst(values, k) ==
    IF k = 0 THEN 0 ELSE values[k] + SumFirst(values, k - 1)

\* The loop of calcEMA from index i on; values[i + 1] is the value at index
\* i and result holds the entries of the indices below i.
RECURSIVE EmaFrom(_, _, _, _)
EmaFrom(values, period, i, result) ==
    IF i >= Len(values) THEN result
    ELSE
      LET entry ==
            IF i < period - 1 THEN None
            ELSE IF i = period - 1
                 THEN Some(SumFirst(values, period) \div period)
            ELSE IF result[i] = None THEN None
            ELSE Some((2 * values[i + 1] + (period - 1) * Val(result[i]))
                        \div (period + 1))
      IN  EmaFrom(values, period, i + 1, Append(result, entry))

\* calcEMA(data, period) over the closes of data.
calcEMA(closes, period) == EmaFrom(closes, period, 0, <<>>)

\* 100 - 100 / (1 + avgGain / avgLoss)
RsiOf(avgGain, avgLoss) ==
    IF avgLoss = 0 THEN 100 ELSE (100 * avgGain) \div (avgGain + avgLoss)

\* changes[i] for i >= 1
Change(closes, i) == closes[i + 1] - closes[i]

\* The sum of the gains (sign = 1) or of the losses (sign = -1) of the
\* changes 1..k.
RECURSIVE SumChanges(_, _, _)
SumChanges(closes, k, sign) ==
    IF k = 0 THEN 0
    ELSE (IF sign * Change(closes, k) > 0 THEN sign * Change(closes, k) ELSE 0)
           + SumChanges(closes, k - 1, sign)

\* The smoothing loop of calcRSI from index i on.
RECURSIVE RsiFrom(_, _, _, _, _, _)
RsiFrom(closes, period, i, avgGain, avgLoss, result) ==
    IF i >= Len(closes) THEN result
    ELSE
      LET change == Change(closes, i)
          gain == IF change > 0 THEN change ELSE 0
          loss == IF change < 0 THEN -change ELSE 0
          g == (avgGain * (period - 1) + gain) \div period
          l == (avgLoss * (period - 1) + loss) \div period
      IN  RsiFrom(closes, period, i + 1, g, l,
                  Append(result, Some(RsiOf(g, l))))

\* calcRSI(data, period) over the closes of data.
calcRSI(closes, period) ==
    IF Len(closes) < period + 1 THEN [k \in 1..Len(closes) |-> None]
    ELSE
      LET avgGain == SumChanges(closes, period, 1) \div period
          avgLoss == SumChanges(closes, period, -1) \div period
      IN  RsiFrom(closes, period, period + 1, avgGain, avgLoss,
                  [k \in 1..(period + 1) |->
                     IF k <= period THEN None
                     ELSE Some(RsiOf(avgGain, avgLoss))])

\* The signal period of calcMACD.
SignalPeriod == 9

\* The seeding of the signal line counted from index 0.
NonNullStartZero(macdLine) == 0

\* macdLine.findIndex((v) => v !== null): -1 when every entry is null.
NonNullStart(macdLine) ==
    IF \A k \in 1..Len(macdLine) : macdLine[k] = None THEN -1
    ELSE (CHOOSE k \in 1..Len(macdLine) :
            /\ macdLine[k] # None
            /\ \A j \in 1..(k - 1) : macdLine[j] = None) - 1

\* macdLine[from] + ... + macdLine[from + count - 1], indices from 0.
RECURSIVE SumLine(_, _, _)
SumLine(macdLine, from, count) ==
    IF count = 0 THEN 0
    ELSE Val(macdLine[from + count]) + SumLine(macdLine, from, count - 1)

\* The loop of the signal line of calcMACD from index i on.
RECURSIVE SignalFrom(_, _, _, _)
SignalFrom(macdLine, nonNullStart, i, result) ==
    IF i >= Len(macdLine) THEN result
    ELSE
      LET entry ==
            IF i < nonNullStart + SignalPeriod - 1 \/ macdLine[i + 1] = None
            THEN None
            ELSE IF i = nonNullStart + SignalPeriod - 1
                 THEN Some(SumLine(macdLine, nonNullStart, SignalPeriod)
                             \div SignalPeriod)
            ELSE IF result[i] = None THEN None
            ELSE Some((2 * Val(macdLine[i + 1])
                         + (SignalPeriod - 1) * Val(result[i]))
                        \div (SignalPeriod + 1))
      IN  SignalFrom(macdLine, nonNullStart, i + 1, Append(result, entry))

SignalLine(macdLine) ==
    SignalFrom(macdLine, NonNullStart(macdLine), 0, <<>>)

\* The three lines calcMACD returns.
MacdLines(macdLine, signalLine) ==
    [ macd      |-> macdLine,
      signal    |-> signalLine,
      histogram |-> [k \in 1..Len(macdLine) |->
                       IF macdLine[k] = None \/ signalLine[k] = None
                       THEN None
                       ELSE Some(Val(macdLine[k]) - Val(signalLine[k]))] ]

\* The MACD line with its signal line.
WithSignalLine(macdLine) == MacdLines(macdLine, SignalLine(macdLine))

\* macdLine = EMA(12) - EMA(26)
MacdLine(ema12, ema26) ==
    [k \in 1..Len(ema12) |->
       IF ema12[k] = None \/ ema26[k] = None THEN None
       ELSE Some(Val(ema12[k]) - Val(ema26[k]))]

\* calcMACD(data) over the closes of data.
calcMACD(closes) ==
    WithSignalLine(MacdLine(calcEMA(closes, 12), calcEMA(closes, 26)))

\* The closes of the candles, in hundredths of a price unit.
ClosesOf(rawData) == [k \in 1..Len(rawData) |-> 100 * rawData[k].close]

\* A candle with its indicators.
EnrichedFields(candle, rsi, macd, macdSignal, histogram) ==
    [ time       |-> candle.time,
      open       |-> candle.open,
      high       |-> candle.high,
      low        |-> candle.low,
      close      |-> candle.close,
      volume     |-> candle.volume,
      rsi        |-> rsi,
      macd       |-> macd,
      macdSignal |-> macdSignal,
      histogram  |-> histogram ]

\* isHighPivot and isLowPivot of the candle at index i.
IsHighPivot(rawData, lookback, i) ==
    \A j \in (i - lookback)..(i + lookback) :
      j # i => rawData[j + 1].high < rawData[i + 1].high

IsLowPivot(rawData, lookback, i) ==
    \A j \in (i - lookback)..(i + lookback) :
      j # i => rawData[j + 1].low > rawData[i + 1].low

\* The pivot loop of calcSupportResistance from index i on.
RECURSIVE PivotsFrom(_, _, _, _)
PivotsFrom(rawData, lookback, i, pivots) ==
    IF i >= Len(rawData) - lookback THEN pivots
    ELSE
      LET highs == IF IsHighPivot(rawData, lookback, i)
                   THEN << [ price |-> rawData[i + 1].high,
                             type |-> "resistance", index |-> i ] >>
                   ELSE <<>>
          lows ==  IF IsLowPivot(rawData, lookback, i)
                   THEN << [ price |-> rawData[i + 1].low,
                             type |-> "support", index |-> i ] >>
                   ELSE <<>>
      IN  PivotsFrom(rawData, lookback, i + 1, pivots \o highs \o lows)

\* diff < 0.002 with twice the threshold.
CloseToWide(representative, pivot) ==
    Abs(representative.price - pivot.price) * 1000 < 4 * representative.price

\* Math.abs(pivots[i].price - pivots[j].price) / pivots[i].price < 0.002
CloseTo(representative, pivot) ==
    Abs(representative.price - pivot.price) * 1000 < 2 * representative.price

\* The cluster loop from the pivot i on (pivots counted from 1): the sets of
\* the pivots clustered together, in the order the clusters are pushed.
RECURSIVE GroupsFrom(_, _, _, _)
GroupsFrom(pivots, i, used, groups) ==
    IF i > Len(pivots) THEN groups
    ELSE IF i \in used THEN GroupsFrom(pivots, i + 1, used, groups)
    ELSE
      LET cluster == {i} \cup {j \in (i + 1)..Len(pivots) :
                                 j \notin used /\ CloseTo(pivots[i], pivots[j])}
      IN  GroupsFrom(pivots, i + 1, used \cup cluster,
                     Append(groups, cluster))

RECURSIVE SumPrices(_, _)
SumPrices(pivots, cluster) ==
    IF cluster = {} THEN 0
    ELSE LET j == CHOOSE j \in cluster : TRUE
         IN  pivots[j].price + SumPrices(pivots, cluster \ {j})

\* The level pushed for a cluster; the average is rounded down to a price
\* unit.
Level(pivots, cluster) ==
    LET supports == Cardinality({j \in cluster : pivots[j].type = "support"})
        resistances ==
          Cardinality({j \in cluster : pivots[j].type = "resistance"})
    IN  [ type     |-> IF supports >= resistances THEN "support"
                       ELSE "resistance",
          price    |-> SumPrices(pivots, cluster) \div Cardinality(cluster),
          strength |-> Cardinality(cluster) ]

\* clusters.sort((a, b) => b.strength - a.strength): a stable sort, by
\* insertion of the clusters in their order.
RECURSIVE SortedByStrength(_, _, _)
SortedByStrength(groups, k, sorted) ==
    IF k > Len(groups) THEN sorted
    ELSE
      LET strength == Cardinality(groups[k])
          before == Cardinality({n \in 1..Len(sorted) :
                                   Cardinality(sorted[n]) >= strength})
      IN  SortedByStrength(groups, k + 1,
            SubSeq(sorted, 1, before) \o <<groups[k]>>
              \o SubSeq(sorted, before + 1, Len(sorted)))

\* clusters.slice(0, 6)
MaxLevels == 6

\* The clusters kept, as the sets of their pivots.
KeptGroups(pivots) ==
    LET sorted == SortedByStrength(GroupsFrom(pivots, 1, {}, <<>>), 1, <<>>)
    IN  SubSeq(sorted, 1, Min(MaxLevels, Len(sorted)))

\* calcSupportResistance(data, lookback)
calcSupportResistance(rawData, lookback) ==
    LET pivots == PivotsFrom(rawData, lookback, lookback, <<>>)
        kept == KeptGroups(pivots)
    IN  [n \in 1..Len(kept) |-> Level(pivots, kept[n])]

\* The default of the parameter lookback.
Lookback == 20

\* data.map((candle, i) => ({...candle, rsi: rsi[i], ...})), indexed from 0.
WithIndicators(rawData, rsi, m) ==
    [ i \in 0..(Len(rawData) - 1) |->
        EnrichedFields(rawData[i + 1], rsi[i + 1], m.macd[i + 1],
                       m.signal[i + 1], m.histogram[i + 1]) ]

\* The indicators of a sequence of closes.
IndicatorsOf(rawData, closes) ==
    WithIndicators(rawData, calcRSI(closes, 14), calcMACD(closes))

\* enrichData(data).data
EnrichedCandles(rawData) == IndicatorsOf(rawData, ClosesOf(rawData))

\* enrichData(data)
enrichData(rawData) ==
    [ data     |-> EnrichedCandles(rawData),
      srLevels |-> calcSupportResistance(rawData, Lookback) ]

\* ------------------------------------------------------------------------
\* handleLiveTick (server/index.js)
\* ------------------------------------------------------------------------

\* module.exports of server/trade-manager.js
Exports == {"TradeManager", "PAIRS", "getDigits", "getContractSize"}

\* A name destructured from require("./trade-manager") is a function when
\* the module exports it and undefined otherwise; a call of undefined throws
\* TypeError.
Callable(name) == name \in Exports

\* getCandles(200)
CandleCount == 200

\* The values of the indicators of the in-progress candle in live mode.
\* They are floating-point functions of the whole price history; the live
\* model takes them as an input of the step: oversold (rsiScore 2) or
\* neutral.
Indicators ==
    { [rsi |-> Some(25), macd |-> Some(0), macdSignal |-> Some(0),
       histogram |-> Some(0)],
      [rsi |-> Some(50), macd |-> Some(0), macdSignal |-> Some(0),
       histogram |-> Some(0)] }

\* A candle with the indicators of ind.
Enriched(candle, ind) ==
    [ time       |-> candle.time,
      open       |-> candle.open,
      high       |-> candle.high,
      low        |-> candle.low,
      close      |-> candle.close,
      volume     |-> candle.volume,
      rsi        |-> ind.rsi,
      macd       |-> ind.macd,
      macdSignal |-> ind.macdSignal,
      histogram  |-> ind.histogram ]

\* Candles of the warm-up kind, one per interval from time 0.
FlatCandles(n) ==
    [ k \in 1..n |->
        [ time   |-> (k - 1) * IntervalMs,
          open   |-> WarmUpKind.close,
          high   |-> WarmUpKind.high,
          low    |-> WarmUpKind.low,
          close  |-> WarmUpKind.close,
          volume |-> 0 ] ]

\* The candles GET /api/candles fetched: three more than StartIndex, so
\* that the candle a tick starts after them is the first with every
\* indicator of enrichData.
LiveRaw == FlatCandles(StartIndex + 3)

\* enrichData over as many candles as live mode reaches.  Which indicators
\* of a candle are null depends on its index alone, not on the prices.
Computed == EnrichedCandles(FlatCandles(StartIndex + 3 + MaxTicks))

\* The values of ind where enrichData has a value, null where it has none.
Given(ind, computed) ==
    [ rsi        |-> IF computed.rsi = None THEN None ELSE ind.rsi,
      macd       |-> IF computed.macd = None THEN None ELSE ind.macd,
      macdSignal |-> IF computed.macdSignal = None THEN None
                     ELSE ind.macdSignal,
      histogram  |-> IF computed.histogram = None THEN None
                     ELSE ind.histogram ]

\* enrichData(rawData).data in live mode: the completed candles keep the
\* indicators they had in prev, the last candle gets those of ind where
\* enrichData computes a value.
enrichDataGiven(rawData, prev, ind) ==
    [ i \in 0..(Len(rawData) - 1) |->
        IF i < Len(rawData) - 1 /\ i \in DOMAIN prev
        THEN Enriched(rawData[i + 1], prev[i])
        ELSE Enriched(rawData[i + 1], Given(ind, Computed[i])) ]

\* processData(rawData, pair)
processData(rawData) ==
    LET enriched == enrichData(rawData)
    IN  [ data     |-> enriched.data,
          srLevels |-> enriched.srLevels,
          signals  |-> generateSignals(enriched.data, enriched.srLevels) ]

\* The closes of the candles getMarketData returns: flat, or rising and
\* falling in steps of 500 with a period of 2, 5 or 7 candles.
ClosePatterns == {<<0, 2>>, <<1, 2>>, <<1, 5>>, <<3, 5>>, <<1, 7>>, <<3, 7>>}

\* n candles of a pattern, one per interval from time 0.
PatternCandles(pattern, n) ==
    [ k \in 1..n |->
        LET close == 200000 + 500 * ((pattern[1] * (k - 1)) % pattern[2])
        IN  [ time   |-> (k - 1) * IntervalMs,
              open   |-> close,
              high   |-> close + 100,
              low    |-> close - 100,
              close  |-> close,
              volume |-> 0 ] ]

RawDataSets ==
    { PatternCandles(pattern, n) :
        pattern \in ClosePatterns, n \in 0..EnrichLen }

\* What GET /api/candles assigns from the result of processData.
Assigned(result) ==
    /\ currentData' = result.data
    /\ currentSignals' = result.signals
    /\ reply' = "candles"

\* GET /api/candles, the first request after the start of the server;
\* rawData is what getMarketData returns.
apiCandles(rawData) ==
    /\ reply = NULL
    /\ Assigned(processData(rawData))
    /\ UNCHANGED <<aggVars, processed, snapshot, streamVars, hostVars>>
    /\ UNCHANGED <<ledgerVars, signalVars, btVars>>

\* processData(rawData, pair) in live mode; the levels are those of Levels.
processDataGiven(rawData, prev, ind) ==
    LET enriched == enrichDataGiven(rawData, prev, ind)
    IN  [ data     |-> enriched,
          srLevels |-> Levels,
          signals  |-> generateSignals(enriched, Levels) ]

\* currentData.map((c) => ({ time, timestamp, open, high, low, close,
\* volume })), as a sequence.
RawCandles(d) ==
    [ k \in 1..Length(d) |->
        [ time   |-> d[k - 1].time,
          open   |-> d[k - 1].open,
          high   |-> d[k - 1].high,
          low    |-> d[k - 1].low,
          close  |-> d[k - 1].close,
          volume |-> d[k - 1].volume ] ]

\* What GET /api/candles left in currentData.
LiveHistory == EnrichedCandles(LiveRaw)

\* The modes in which ticks arrive.
Modes == {"SIMULATION", "LIVE"}

\* tradingParams.lotSize, 0.1 unless configured otherwise.
TradingLotSize == 1

\* signals.filter: the signals at the last two indices of enriched.
NewSignals(sigs, enriched) ==
    LET AtEnd(s) == \/ s.index = Length(enriched) - 1
                    \/ s.index = Length(enriched) - 2
    IN  SelectSeq(sigs, AtEnd)

\* newSignals.filter: those without a signal of the same time and type in
\* currentSignals.
BrandNewSignals(newSignals, known) ==
    LET Unknown(s) == ~\E n \in 1..Len(known) :
                         known[n].time = s.time /\ known[n].type = s.type
    IN  SelectSeq(newSignals, Unknown)

\* The for loop of the auto-execution: a signal is executed when no position
\* of currentPair is open, so the first brand-new signal is the only one
\* that can be.
AutoExecuted(brandNewSignals, positions, id) ==
    IF /\ brandNewSignals # <<>>
       /\ ~\E k \in 1..Len(positions) : positions[k].pair = LivePair
       /\ id <= MaxTrades
    THEN << NewPosition(id, brandNewSignals[1].type, LivePair,
                        brandNewSignals[1].price, TradingLotSize, 0, 0) >>
    ELSE <<>>

\* handleLiveTick(tick).  ind is what enrichData computes for the last
\* candle, mode is currentMode and marketOpen is isMarketOpen().  The
\* callback of brandNewSignals.forEach calls pipsToPrice: when the name is
\* not callable the call throws on the first brand-new signal, after
\* currentData has been assigned and before anything that follows the
\* forEach.
handleLiveTick(tick, ind, mode, marketOpen) ==
    /\ Len(ticks) < MaxTicks
    /\ LET created == Aggregator(<<>>, <<>>)
           loaded == IF tick.symbol \in aggregators
                     THEN Aggregator(currentCandle, candles)
                     ELSE IF Length(currentData) > 0
                          THEN LoadHistory(created, RawCandles(currentData))
                          ELSE created
           agg == AddTick(loaded, tick)
           rawCandles == GetCandles(agg, CandleCount)
           result == processDataGiven(rawCandles, currentData, ind)
           newSignals == NewSignals(result.signals, result.data)
           brandNewSignals == BrandNewSignals(newSignals, currentSignals)
           throws == brandNewSignals # <<>> /\ ~Callable("pipsToPrice")
           opened == IF mode = "SIMULATION" /\ marketOpen
                     THEN AutoExecuted(brandNewSignals, openPositions, nextId)
                     ELSE <<>>
           prices == [lastPrices EXCEPT ![tick.symbol] = tick.price]
           acc == FilterPositions(openPositions \o opened, 1, tick.symbol,
                    tick.price, prices,
                    [ open |-> <<>>, closed |-> <<>>,
                      balance |-> balance, log |-> tradeLog ])
       IN  /\ aggregators' = aggregators \cup {tick.symbol}
           /\ currentCandle' = agg.currentCandle
           /\ candles' = agg.candles
           /\ ticks' = Append(ticks, tick)
           /\ currentData' = result.data
           /\ IF throws
              THEN /\ processed' = Append(processed, FALSE)
                   /\ UNCHANGED <<currentSignals, ledgerVars>>
              ELSE /\ processed' = Append(processed, TRUE)
                   /\ currentSignals' = result.signals
                   /\ nextId' = nextId + Len(opened)
                   /\ lastPrices' = prices
                   /\ openPositions' = acc.open
                   /\ balance' = acc.balance
                   /\ tradeLog' = acc.log
                   /\ returned' = acc.closed
                   /\ UNCHANGED startingBalance
    /\ UNCHANGED <<snapshot, reply, signalVars, btVars, streamVars, hostVars>>

\* signalHistory.push(s) for each brand-new signal, after s.pair =
\* currentPair; tradeManager.incrementSignalCount() is called with each push.
Pushed(history, brandNewSignals, pair) ==
    history \o [ k \in 1..Len(brandNewSignals) |->
                   [ time |-> brandNewSignals[k].time,
                     type |-> brandNewSignals[k].type,
                     pair |-> pair ] ]

\* handleLiveTick(tick) of the second text of the server in index.js (1672):
\* stops and targets in per cent of the price, no call of pipsToPrice and no
\* auto-execution, so the forEach runs to its end.
handleLiveTickSecond(tick, ind) ==
    /\ Len(ticks) < MaxTicks
    /\ LET created == Aggregator(<<>>, <<>>)
           loaded == IF tick.symbol \in aggregators
                     THEN Aggregator(currentCandle, candles)
                     ELSE IF Length(currentData) > 0
                          THEN LoadHistory(created, RawCandles(currentData))
                          ELSE created
           agg == AddTick(loaded, tick)
           rawCandles == GetCandles(agg, CandleCount)
           result == processDataGiven(rawCandles, currentData, ind)
           newSignals == NewSignals(result.signals, result.data)
           brandNewSignals == BrandNewSignals(newSignals, currentSignals)
           prices == [lastPrices EXCEPT ![tick.symbol] = tick.price]
           acc == FilterPositions(openPositions, 1, tick.symbol,
                    tick.price, prices,
                    [ open |-> <<>>, closed |-> <<>>,
                      balance |-> balance, log |-> tradeLog ])
       IN  /\ aggregators' = aggregators \cup {tick.symbol}
           /\ currentCandle' = agg.currentCandle
           /\ candles' = agg.candles
           /\ ticks' = Append(ticks, tick)
           /\ currentData' = result.data
           /\ signalHistory' = Pushed(signalHistory, brandNewSignals,
                                      currentPair)
           /\ currentSignals' = result.signals
           /\ processed' = Append(processed, TRUE)
           /\ lastPrices' = prices
           /\ openPositions' = acc.open
           /\ balance' = acc.balance
           /\ tradeLog' = acc.log
           /\ returned' = acc.closed
           /\ UNCHANGED <<startingBalance, nextId>>
    /\ UNCHANGED <<snapshot, reply, signalVars, btVars, streamVars,
                   currentPair, currentMode, simulationInterval, delivered,
                   clientVars>>

\* GET /api/candles?pair= of the second text (1314): the data of the pair
\* become the current data, the pair the current pair, and the signals of
\* the result are pushed with the pair of the request.  The subscriptions of
\* the stream are left as they are.
apiCandlesSecond(pair, rawData) ==
    /\ Assigned(processData(rawData))
    /\ currentPair' = pair
    /\ signalHistory' = Pushed(signalHistory, processData(rawData).signals,
                               pair)
    /\ UNCHANGED <<aggVars, processed, snapshot, streamVars, currentMode,
                   simulationInterval, delivered, clientVars>>
    /\ UNCHANGED <<ledgerVars, signalVars, btVars>>

\* The server after GET /api/candles and before the first tick.
LiveInit ==
    /\ aggregators = {}
    /\ currentCandle = <<>>
    /\ candles = <<>>
    /\ ticks = <<>>
    /\ currentData = LiveHistory
    /\ currentSignals = <<>>
    /\ processed = <<>>
    /\ snapshot = <<>>
    /\ reply = NULL
    /\ StreamIdle
    /\ HostIdle

\* ------------------------------------------------------------------------
\* data/trades.json: saveTradingState and loadTradingState (server/index.js)
\* ------------------------------------------------------------------------

\* data.balance || 10000, in the money of the model
DefaultBalance == 10000000

\* The ids of the records of a sequence.
Ids(seq) == {seq[k].id : k \in 1..Len(seq)}

\* An id after the open positions alone, whatever the trade log holds.
NextIdAfterOpen(open, log) == MaxOf(Ids(open) \cup {0}) + 1

\* Math.max(...openPositions ids, ...tradeLog ids, 0) + 1
NextIdAfter(open, log) == MaxOf(Ids(open) \cup Ids(log) \cup {0}) + 1

\* saveTradingState(): the file holds the ledger as it is now.
saveTradingState ==
    /\ snapshot' = << [ balance         |-> balance,
                        startingBalance |-> startingBalance,
                        openPositions   |-> openPositions,
                        tradeLog        |-> tradeLog ] >>
    /\ reply' = "saved"
    /\ UNCHANGED <<ledgerVars, signalVars, btVars, aggVars, liveVars,
                   streamVars, hostVars>>

\* A start of the server: new TradeManager(tradingParams.startingBalance),
\* then loadTradingState(), which leaves the new ledger as it is when there
\* is no file.
loadTradingState ==
    /\ IF snapshot = <<>>
       THEN /\ balance' = startingBalance
            /\ openPositions' = <<>>
            /\ tradeLog' = <<>>
            /\ nextId' = 1
            /\ reply' = "started"
            /\ UNCHANGED startingBalance
       ELSE LET state == snapshot[1]
            IN  /\ balance' = OrDefault(state.balance, DefaultBalance)
                /\ startingBalance' =
                     OrDefault(state.startingBalance, DefaultBalance)
                /\ openPositions' = state.openPositions
                /\ tradeLog' = state.tradeLog
                /\ nextId' = NextIdAfter(state.openPositions, state.tradeLog)
                /\ reply' = "loaded"
    /\ lastPrices' = [p \in Pairs |-> 0]
    /\ returned' = <<>>
    /\ UNCHANGED <<snapshot, signalVars, btVars, aggVars, liveVars,
                   streamVars, hostVars>>

\* ------------------------------------------------------------------------
\* The requests that open and close positions: /buy and /sell and the inline
\* buttons (server/telegram-commands.js), POST /api/trade/open and
\* POST /api/trade/close (server/index.js)
\* ------------------------------------------------------------------------

SUPPORTED_PAIRS ==
    {"EUR/USD", "GBP/USD", "USD/JPY", "XAU/USD", "USD/CAD", "AUD/USD"}

\* estimatedMargin = lotSize * 1000 dollars: a dollar is 1000 units of the
\* money of the model (a price unit is a cent), a lot is ten tenths.
MarginPerTenth == 100000

\* validateTradeParams(pair, lotSize, balance): "valid", or the error.
\* lotSize is in tenths of a lot; 0 stands for what parseFloat makes of a
\* text that is no number, and for the numbers below 0.01.
validateTradeParams(pair, lotSize, bal) ==
    IF pair \notin SUPPORTED_PAIRS THEN "Invalid pair"
    ELSE IF lotSize < 1 \/ lotSize > 10
         THEN "Lot size must be between 0.01 and 1.0"
    ELSE IF bal < lotSize * MarginPerTenth THEN "Insufficient balance"
    ELSE "valid"

\* The pair of a text: a text of six letters gets its slash, a text with a
\* slash is taken as it is.
PairOfText(text) ==
    CASE text = "XAUUSD" -> "XAU/USD"
      [] text = "EURUSD" -> "EUR/USD"
      [] text = "ABCDEF" -> "ABC/DEF"
      [] OTHER -> text

\* toUpperCase()
ToUpperCase(text) ==
    CASE text = "buy" -> "BUY"
      [] text = "sell" -> "SELL"
      [] text = "hold" -> "HOLD"
      [] OTHER -> text

\* this.lastPrices.set(pair, price)
SetPrice(prices, pair, price) ==
    [ p \in DOMAIN prices \cup {pair} |->
        IF p = pair THEN price ELSE prices[p] ]

\* tradeManager.openTrade(type, pair, price, { lotSize }) followed by
\* tradeManager.lastPrices.set(pair, price), and the answer.
OpenAndSetPrice(type, pair, price, lotSize, answer) ==
    /\ nextId <= MaxTrades
    /\ LET position == NewPosition(nextId, type, pair, price, lotSize, 0, 0)
       IN  /\ openPositions' = Append(openPositions, position)
           /\ returned' = <<position>>
    /\ nextId' = nextId + 1
    /\ lastPrices' = SetPrice(lastPrices, pair, price)
    /\ reply' = answer
    /\ UNCHANGED <<startingBalance, balance, tradeLog>>

\* A request answered without a call of the ledger.
Rejected(answer) ==
    /\ reply' = answer
    /\ UNCHANGED ledgerVars

\* The arguments of /buy and /sell: none, or a pair text and a lot size.
PairTexts == {"XAUUSD", "ABC/DEF"}

LotTexts == {0, 10, 20}

ArgLists == {<<>>} \cup {<<text, lot>> : text \in PairTexts, lot \in LotTexts}

\* case "/buy" and case "/sell" of handleCommand.  The price is that of
\* pairPrices or of PAIRS, which has one for every supported pair.
tradeCommand(side, args, marketOpen, price) ==
    /\ IF Len(args) < 2 THEN Rejected("Usage")
       ELSE LET pair == PairOfText(args[1])
                lotSize == args[2]
                validation == validateTradeParams(pair, lotSize, balance)
            IN  IF validation # "valid" THEN Rejected(validation)
                ELSE IF ~marketOpen THEN Rejected("Markets Closed")
                ELSE OpenAndSetPrice(side, pair, price, lotSize, "Order Placed")
    /\ UNCHANGED <<signalVars, btVars, aggVars, liveVars, snapshot,
                   streamVars, hostVars>>

\* The data of an inline button, split at "_".
CallbackData ==
    {<<"menu">>}
    \cup {<<"signal", type, pairNoSlash, price>> :
            type \in {"buy", "hold"}, pairNoSlash \in {"XAUUSD", "ABCDEF"},
            price \in OpenPrices}

\* handleCallbackQuery(callbackQueryId, callbackData)
handleCallbackQuery(parts, marketOpen) ==
    /\ IF parts[1] # "signal" \/ Len(parts) # 4 THEN Rejected("Invalid action")
       ELSE LET pair == PairOfText(parts[3])
                price == parts[4]
                tradeType == ToUpperCase(parts[2])
                validation == validateTradeParams(pair, 1, balance)
            IN  IF validation # "valid" THEN Rejected(validation)
                ELSE IF ~marketOpen THEN Rejected("Markets are closed")
                ELSE OpenAndSetPrice(tradeType, pair, price, 1, "Trade Opened")
    /\ UNCHANGED <<signalVars, btVars, aggVars, liveVars, snapshot,
                   streamVars, hostVars>>

\* The bodies of POST /api/trade/open: pair NULL is a body without a pair,
\* price 0 a body without a price.
OpenBodies ==
    [ type : {"SELL", "HOLD"}, pair : {NULL, "ABC/DEF"},
      price : OpenPrices \cup {0} ]

\* The close of the last candle of currentData, 0 when there is none.
LastClose(d) == IF Length(d) > 0 THEN d[Length(d) - 1].close ELSE 0

\* POST /api/trade/open
apiTradeOpen(body) ==
    /\ LET tradePrice == OrDefault(body.price, LastClose(currentData))
           pair == IF body.pair # NULL THEN body.pair ELSE LivePair
       IN  IF tradePrice = 0 THEN Rejected("No price data available")
           ELSE OpenAndSetPrice(body.type, pair, tradePrice, TradingLotSize,
                                "opened")
    /\ UNCHANGED <<signalVars, btVars, aggVars, liveVars, snapshot,
                   streamVars, hostVars>>

\* POST /api/trade/close
apiTradeClose(positionId, price) ==
    /\ LET closePrice == OrDefault(price, LastClose(currentData))
           idx == FindIndex(openPositions, positionId)
       IN  IF idx = 0
           THEN /\ returned' = <<>>
                /\ reply' = "Position not found"
                /\ UNCHANGED <<balance, openPositions, tradeLog>>
           ELSE LET closed == _closePosition(openPositions[idx], closePrice,
                                             "Manual Close", balance)
                IN  /\ balance' = closed.balanceAfter
                    /\ tradeLog' = Append(tradeLog, closed)
                    /\ openPositions' = Splice(openPositions, idx)
                    /\ returned' = <<closed>>
                    /\ reply' = "closed"
    /\ UNCHANGED <<startingBalance, nextId, lastPrices>>
    /\ UNCHANGED <<signalVars, btVars, aggVars, liveVars, snapshot,
                   streamVars, hostVars>>

\* The tick prices while requests are served: below the stop-loss of a BUY
\* opened at 200000.
OrderTickPrices == {199200}

\* ------------------------------------------------------------------------
\* Specifications
\* ------------------------------------------------------------------------

\* The ledger under openTrade as its callers call it, updatePositions and
\* closePosition.
Init == LedgerInit /\ ScanIdle /\ BtIdle /\ ServerIdle

Next ==
    \/ \E type \in Types, pair \in Pairs, price \in OpenPrices,
          lotCfg \in LotSizes, slCfg \in DefaultStopLossCfgs :
         openTrade(type, pair, price, lotCfg, slCfg)
    \/ \E pair \in Pairs, price \in TickPrices : updatePositions(pair, price)
    \/ \E id \in 1..(MaxTrades + 1), price \in ClosePrices :
         closePosition(id, price)

Spec == Init /\ [][Next]_vars

\* The ledger under openTrade with any stop-loss percentage and
\* updatePositions.
StopsNext ==
    \/ \E type \in Types, pair \in Pairs, price \in OpenPrices,
          lotCfg \in LotSizes, slCfg \in StopLossCfgs :
         openTrade(type, pair, price, lotCfg, slCfg)
    \/ \E pair \in Pairs, price \in TickPrices : updatePositions(pair, price)

SpecStops == Init /\ [][StopsNext]_vars

\* One run of generateSignals.
SignalsInit ==
    LedgerInit /\ ScanInit(ScanLen, SignalKinds) /\ BtIdle /\ ServerIdle

SignalsNext == ScanStep

SpecSignals == SignalsInit /\ [][SignalsNext]_vars

\* One run of generateSignals over the candles of every score.
ThresholdInit == LedgerInit /\ ScoreInit /\ BtIdle /\ ServerIdle

ThresholdNext == ScanStep

SpecThreshold == ThresholdInit /\ [][ThresholdNext]_vars

\* The candles of one request enriched.
EnrichNext == \E rawData \in RawDataSets : apiCandles(rawData)

SpecEnrich == Init /\ [][EnrichNext]_vars

\* The highs and lows of the two candles that may be pivots; the first of
\* each is that of every other candle.
PivotHighs == {200500, 200600, 200900}

PivotLows == {200400, 200300, 200000}

\* The candles of the levels: flat but for the candles at the indices 20
\* and 41, each the only candle of its window that can be a pivot.
LevelCandles(high20, low20, high41, low41) ==
    [ i \in 0..(3 * Lookback + 1) |->
        [ time   |-> i * IntervalMs,
          open   |-> 200450,
          high   |-> IF i = Lookback THEN high20
                     ELSE IF i = 2 * Lookback + 1 THEN high41 ELSE 200500,
          low    |-> IF i = Lookback THEN low20
                     ELSE IF i = 2 * Lookback + 1 THEN low41 ELSE 200400,
          close  |-> 200450,
          volume |-> 0 ] ]

LevelDataSets ==
    { LevelCandles(high20, low20, high41, low41) :
        high20 \in PivotHighs, low20 \in PivotLows,
        high41 \in PivotHighs, low41 \in PivotLows }

\* The candles are there and no level is computed yet.
LevelsInit ==
    /\ LedgerInit /\ BtIdle /\ ServerIdle
    /\ data \in LevelDataSets
    /\ srLevels = <<>>
    /\ scanIndex = StartIndex
    /\ signals = <<>>
    /\ lastSignalIndex = None
    /\ lastSignalType = NULL

\* const srLevels = calcSupportResistance(rawData)
supportResistance ==
    /\ srLevels = <<>>
    /\ srLevels' = calcSupportResistance(RawCandles(data), Lookback)
    /\ UNCHANGED <<data, scanIndex, signals, lastSignalIndex, lastSignalType>>
    /\ UNCHANGED <<ledgerVars, btVars, serverVars>>

LevelsNext == supportResistance

SpecLevels == LevelsInit /\ [][LevelsNext]_vars

\* One backtest request.
BacktestInit ==
    LedgerInit /\ ScanInit(BtTail, BtKinds) /\ BtInit /\ ServerIdle

BacktestNext == ScanStep \/ BtStartWalk \/ BtStep \/ BtFinish

SpecBacktest == BacktestInit /\ [][BacktestNext]_vars

\* One aggregator under addTick, the ticks in any order of their timestamps.
AggregatorNext == \E tick \in Ticks : addTick(tick)

SpecAggregator == Init /\ [][AggregatorNext]_vars

\* A completed one-minute candle of the history.
HistoryCandle(time) ==
    [ time |-> time, open |-> 200000, high |-> 200400, low |-> 199600,
      close |-> 200000, volume |-> 5 ]

\* The histories loaded: none, one candle, two candles.  The last candle is
\* of the bucket that starts at 1800000.
Histories ==
    { <<>>, <<HistoryCandle(1800000)>>,
      <<HistoryCandle(1740000), HistoryCandle(1800000)>> }

\* Ticks of the bucket that starts at 1800000 and of the next one, below
\* the low and above the high of the candles of the history.
HistoryTicks ==
    [ symbol : {LivePair}, price : {199200, 200800},
      timestamp : {1800000, 1830000, 1860000}, volume : {3} ]

\* The counts asked of getCandles, 200 being its default.
Counts == {0, 1, 2, 200}

\* An aggregator that is loaded with a history, fed ticks and read.
CandlesNext ==
    \/ \E h \in Histories : loadHistory(h)
    \/ \E tick \in HistoryTicks : addTick(tick)
    \/ \E count \in Counts : getCandles(count)

SpecCandles == Init /\ [][CandlesNext]_vars

\* The stream from the start of the server to its shutdown.
StreamNext ==
    \/ connect \/ onOpen \/ onClose \/ Elapse \/ onTimeout \/ disconnect
    \/ \E symbol \in Pairs : subscribe(symbol)
    \/ \E symbol \in Pairs : unsubscribe(symbol)

SpecStream == Init /\ [][StreamNext]_vars

\* The REST client under calls of fetchWithRetry with the time-series
\* request of a pair; the service answers with a status, and every request
\* is answered and every timer fires.
Urls == {"time_series?symbol=EUR/USD", "time_series?symbol=XAU/USD"}

Statuses == {200, 429, 500}

RetryArgs == 1..4

FetchNext ==
    \/ \E url \in Urls, maxRetries \in RetryArgs :
         fetchWithRetry(url, maxRetries)
    \/ \E status \in Statuses : onResponse(status)
    \/ Sleep
    \/ onWaited

SpecFetch ==
    /\ Init
    /\ [][FetchNext]_vars
    /\ WF_vars(\E status \in Statuses : onResponse(status))
    /\ WF_vars(Sleep)
    /\ WF_vars(onWaited)

\* The market hours asked at every hour of the week.
Times == [day : 0..6, hour : 0..23]

MarketNext == \E now \in Times : marketHours(now)

SpecMarket == Init /\ [][MarketNext]_vars

\* The Telegram client: messages of the configured chat and of a stranger,
\* buttons pressed by the configured user, by a stranger and by nobody
\* known, while checkUpdates is started again before earlier calls return.
Commands == {"/buy XAU/USD 0.1", "/close 1", "/pair XAU/USD", "/alerts"}

ChatIds == {NumberId(42), NumberId(7)}

Sent ==
    ({"message"} \X ChatIds \X Commands)
    \cup ({"callback_query"} \X (ChatIds \cup {Undefined})
                             \X {"signal_buy_XAUUSD_2000.00"})

TelegramNext ==
    \/ \E sent \in Sent : sendUpdate(sent[1], sent[2], sent[3])
    \/ checkUpdates
    \/ \E p \in 1..MaxPolls, marketOpen \in BOOLEAN : onUpdates(p, marketOpen)
    \/ \E p \in 1..MaxPolls, marketOpen \in BOOLEAN : onHandled(p, marketOpen)

SpecTelegram == Init /\ [][TelegramNext]_vars

\* The server under requests of mode control while the socket connects,
\* drops and reconnects, every attempt to connect succeeding.
ModeNext ==
    \/ connect \/ onOpen \/ Elapse \/ onTimeout
    \/ ws = "open" /\ onClose
    \/ \E pair \in Pairs : modeStart(pair)
    \/ modeStop
    \/ \E pair \in Pairs : modeSwitch(pair)
    \/ \E pair \in Pairs : pairCommand(pair)
    \/ \E symbol \in Pairs : onPrice(symbol)
    \/ onInterval

SpecMode == Init /\ [][ModeNext]_vars

\* The server in live mode: ticks of the subscribed symbol, and positions
\* opened on the ledger between them.
LiveTicks ==
    [ symbol : {LivePair}, price : {199200, 200000},
      timestamp : {1950000, 1980000, 2040000}, volume : {3} ]

LiveStart == LedgerInit /\ ScanIdle /\ BtIdle /\ LiveInit

LiveNext ==
    \/ \E tick \in LiveTicks, ind \in Indicators, mode \in Modes,
          marketOpen \in BOOLEAN :
         handleLiveTick(tick, ind, mode, marketOpen)
    \/ \E price \in OpenPrices, lotCfg \in LotSizes,
          slCfg \in DefaultStopLossCfgs :
         openTrade("BUY", LivePair, price, lotCfg, slCfg)

SpecLive == LiveStart /\ [][LiveNext]_vars

\* The second text of the server under ticks of the subscribed symbol, the
\* in-progress candle and its indicators changing between them, and
\* requests for the candles of a pair.
HistoryTickSet ==
    [ symbol : {LivePair}, price : {199200, 200000},
      timestamp : {1980000, 2040000}, volume : {3} ]

HistoryNext ==
    \/ \E tick \in HistoryTickSet, ind \in Indicators :
         handleLiveTickSecond(tick, ind)
    \/ \E pair \in Pairs : apiCandlesSecond(pair, LiveRaw)

SpecHistory == LiveStart /\ [][HistoryNext]_vars

\* The ledger with positions of two pairs, under ticks that leave a position
\* open (200000) and ticks that close it (199200).
MarkPrices == {199200, 200000}

PairsNext ==
    \/ \E type \in Types, pair \in Pairs, price \in OpenPrices,
          lotCfg \in LotSizes, slCfg \in DefaultStopLossCfgs :
         openTrade(type, pair, price, lotCfg, slCfg)
    \/ \E pair \in Pairs, price \in MarkPrices : updatePositions(pair, price)
    \/ \E id \in 1..(MaxTrades + 1), price \in ClosePrices :
         closePosition(id, price)

SpecPairs == Init /\ [][PairsNext]_vars

\* The ledger of one pair across saves of the file and starts of the server,
\* with positions closed by the ledger's other callers and over
\* POST /api/trade/close.
RestartNext ==
    \/ \E type \in Types, price \in OpenPrices, lotCfg \in LotSizes,
          slCfg \in DefaultStopLossCfgs :
         openTrade(type, LivePair, price, lotCfg, slCfg)
    \/ \E price \in TickPrices : updatePositions(LivePair, price)
    \/ \E id \in 1..(MaxTrades + 1), price \in ClosePrices :
         closePosition(id, price)
    \/ \E id \in 1..(MaxTrades + 1), price \in ClosePrices :
         apiTradeClose(id, price)
    \/ saveTradingState
    \/ loadTradingState

SpecRestart == Init /\ [][RestartNext]_vars

\* The ledger behind its request handlers.
OrdersNext ==
    \/ \E side \in Types, args \in ArgLists, marketOpen \in BOOLEAN,
          price \in OpenPrices :
         tradeCommand(side, args, marketOpen, price)
    \/ \E parts \in CallbackData, marketOpen \in BOOLEAN :
         handleCallbackQuery(parts, marketOpen)
    \/ \E body \in OpenBodies : apiTradeOpen(body)
    \/ \E id \in 1..(MaxTrades + 1), price \in ClosePrices :
         apiTradeClose(id, price)
    \/ \E id \in 1..(MaxTrades + 1), price \in ClosePrices :
         closePosition(id, price)
    \/ \E price \in OrderTickPrices : updatePositions(LivePair, price)

SpecOrders == Init /\ [][OrdersNext]_vars

\* The starting balances of the file's round trip: $40, which one losing
\* manual close of a SELL uses up, and $1000.
SnapshotBalances == {40000, 1000000}

SnapshotInit ==
    /\ startingBalance \in SnapshotBalances
    /\ balance = startingBalance
    /\ openPositions = <<>>
    /\ tradeLog = <<>>
    /\ nextId = 1
    /\ lastPrices = [p \in Pairs |-> 0]
    /\ returned = <<>>
    /\ ScanIdle /\ BtIdle /\ ServerIdle

\* The ledger between saves of the file and starts of the server, its
\* positions closed over POST /api/trade/close.
SnapshotNext ==
    \/ \E type \in Types, price \in OpenPrices, lotCfg \in LotSizes,
          slCfg \in DefaultStopLossCfgs :
         openTrade(type, LivePair, price, lotCfg, slCfg)
    \/ \E id \in 1..(MaxTrades + 1), price \in ClosePrices :
         apiTradeClose(id, price)
    \/ saveTradingState
    \/ loadTradingState

SpecSnapshot == SnapshotInit /\ [][SnapshotNext]_vars

\* The close prices of the statistics: at the entry (a trade that makes
\* nothing) and away from it.
StatsClosePrices == {200000, 200400}

\* Backtest requests with and without a stop-loss distance: with none, a
\* BUY is closed at its entry.
StatsRequests ==
    [ pair : {LivePair}, stopLoss : {0, 2}, takeProfit : {4}, lotSize : {2},
      balance : {1000000} ]

\* Either a backtest request arrives (over no candles at all, or over
\* candles the scan has yet to read), or the live ledger is traded.
StatsInit ==
    /\ LedgerInit
    /\ ServerIdle
    /\ \/ BtIdle /\ ScanIdle
       \/ /\ ScanIdle \/ ScanInit(BtTail, BtKinds)
          /\ btReq \in StatsRequests
          /\ btPc = "processData"
          /\ btIndex = 0
          /\ btBalance = 0
          /\ trades = <<>>
          /\ equityCurve = <<>>
          /\ openPos = <<>>
          /\ btEvents = <<>>
          /\ btResult = <<>>

\* The statistics of a backtest and of the live ledger.
StatsNext ==
    \/ BacktestNext
    \/ \E type \in Types, price \in OpenPrices, lotCfg \in LotSizes,
          slCfg \in DefaultStopLossCfgs :
         btPc = "idle" /\ openTrade(type, LivePair, price, lotCfg, slCfg)
    \/ \E id \in 1..(MaxTrades + 1), price \in StatsClosePrices :
         btPc = "idle" /\ closePosition(id, price)
    \/ btPc = "idle" /\ getStats

SpecStats == StatsInit /\ [][StatsNext]_vars

\* ------------------------------------------------------------------------
\* Properties of the ledger
\* ------------------------------------------------------------------------

RECURSIVE SumPnl(_, _)
SumPnl(log, k) == IF k > Len(log) THEN 0 ELSE log[k].pnl + SumPnl(log, k + 1)

\* C1: after any sequence of openTrade, updatePositions and closePosition
\* calls, balance = startingBalance + the sum of pnl over tradeLog.
C1_BalanceIsStartPlusPnl ==
    balance = startingBalance + SumPnl(tradeLog, 1)

\* Two trades are logged, one closed by hand and one by its stop-loss at a
\* loss, and the balance has moved.
C1_Witness ==
    /\ Len(tradeLog) >= 2
    /\ \E k \in 1..Len(tradeLog) : tradeLog[k].exitReason = "Manual Close"
    /\ \E k \in 1..Len(tradeLog) :
         tradeLog[k].exitReason = "Stop Loss" /\ tradeLog[k].pnl < 0
    /\ balance # startingBalance

Occurrences(seq, id) == Cardinality({k \in 1..Len(seq) : seq[k].id = id})

\* C2: every position opened so far is either open or logged, and exactly
\* once: no id is twice in tradeLog, none is in openPositions and tradeLog,
\* and a position that left openPositions has exactly one entry.
C2_ClosedExactlyOnce ==
    /\ \A id \in 1..(nextId - 1) :
         Occurrences(openPositions, id) + Occurrences(tradeLog, id) = 1
    /\ \A k \in 1..Len(openPositions) : openPositions[k].id \in 1..(nextId - 1)
    /\ \A k \in 1..Len(tradeLog) : tradeLog[k].id \in 1..(nextId - 1)

\* One position was closed by a tick and one by hand.
C2_Witness ==
    /\ \E k \in 1..Len(tradeLog) : tradeLog[k].exitReason = "Manual Close"
    /\ \E k \in 1..Len(tradeLog) : tradeLog[k].exitReason # "Manual Close"

StopCond(pos, price) ==
    \/ pos.type = "BUY" /\ price <= pos.sl
    \/ pos.type = "SELL" /\ price >= pos.sl

TakeCond(pos, price) ==
    \/ pos.type = "BUY" /\ price >= pos.tp
    \/ pos.type = "SELL" /\ price <= pos.tp

\* What updatePositions(pair, price) must have done with each open position
\* of the pair, this state against the next.
TickOutcome(pair, price) ==
    \A k \in 1..Len(openPositions) :
      LET pos == openPositions[k]
          expected == IF StopCond(pos, price) THEN "Stop Loss"
                      ELSE IF TakeCond(pos, price) THEN "Take Profit"
                      ELSE NULL
          remains == \E j \in 1..Len(openPositions') :
                       openPositions'[j].id = pos.id
          closed == {j \in 1..Len(returned') : returned'[j].id = pos.id}
      IN  pos.pair = pair =>
            IF expected = NULL
            THEN remains /\ closed = {}
            ELSE /\ ~remains
                 /\ Cardinality(closed) = 1
                 /\ \A j \in closed :
                      /\ returned'[j].exit = price
                      /\ returned'[j].exitReason = expected

\* C3: in updatePositions(pair, price) a position of the pair whose
\* stop-loss condition holds is closed as 'Stop Loss', else one whose
\* take-profit condition holds is closed as 'Take Profit', in both cases
\* removed and returned exactly once with exit = price; any other position
\* of the pair stays open.
C3_StopLossBeforeTakeProfit ==
    [][\A pair \in Pairs, price \in TickPrices :
         updatePositions(pair, price) => TickOutcome(pair, price)]_vars

\* A tick closed a position whose stop-loss and take-profit conditions both
\* held, as a stop-loss, and left another position open.
C3_Witness ==
    /\ \E k \in 1..Len(returned) :
         /\ "exitReason" \in DOMAIN returned[k]
         /\ returned[k].exitReason = "Stop Loss"
         /\ returned[k].exit = lastPrices[returned[k].pair]
         /\ TakeCond(returned[k], returned[k].exit)
    /\ \E k \in 1..Len(openPositions) :
         /\ lastPrices[openPositions[k].pair] # 0
         /\ openPositions[k].currentPrice = lastPrices[openPositions[k].pair]
         /\ ~StopCond(openPositions[k], openPositions[k].currentPrice)
         /\ ~TakeCond(openPositions[k], openPositions[k].currentPrice)

\* ------------------------------------------------------------------------
\* Properties of generateSignals
\* ------------------------------------------------------------------------

\* The indices scanned so far.
Scanned == StartIndex..(scanIndex - 1)

Emitted(idx) == \E n \in 1..Len(signals) : signals[n].index = idx

EmittedAs(idx, type) ==
    \E n \in 1..Len(signals) : signals[n].index = idx /\ signals[n].type = type

\* The signals emitted before the candle at idx was scanned.
Before(idx) == {n \in 1..Len(signals) : signals[n].index < idx}

\* The most recently emitted of them.
MostRecent(idx) ==
    CHOOSE n \in Before(idx) : \A m \in Before(idx) : m <= n

Opposite(type) == IF type = "BUY" THEN "SELL" ELSE "BUY"

\* C4: a qualifying candle is suppressed exactly when its type is that of
\* the most recently emitted signal and fewer than 5 indices lie between
\* them; so consecutive signals of one type are at least 5 indices apart.
C4_CooldownSameType ==
    /\ \A idx \in Scanned :
         LET type == Candidate(data, srLevels, idx)
         IN  /\ type = NULL => ~Emitted(idx)
             /\ type # NULL =>
                  LET suppressed ==
                        /\ Before(idx) # {}
                        /\ signals[MostRecent(idx)].type = type
                        /\ idx - signals[MostRecent(idx)].index < 5
                  IN  IF suppressed THEN ~Emitted(idx)
                                    ELSE EmittedAs(idx, type)
    /\ \A n \in 1..(Len(signals) - 1) :
         signals[n].type = signals[n + 1].type =>
           signals[n + 1].index - signals[n].index >= 5

\* The scan is over; one candle was suppressed 4 indices after a signal of
\* its type, and the next signal of that type came exactly 5 indices after.
C4_Witness ==
    /\ scanIndex = Length(data)
    /\ \E n \in 1..(Len(signals) - 1) :
         /\ signals[n].type = signals[n + 1].type
         /\ signals[n + 1].index - signals[n].index = 5
         /\ Candidate(data, srLevels, signals[n].index + 4) = signals[n].type

\* C5: a qualifying candle whose type differs from that of the most
\* recently emitted signal is emitted, however close the two are.
C5_OppositeNeverSuppressed ==
    \A idx \in Scanned :
      LET type == Candidate(data, srLevels, idx)
      IN  (/\ type # NULL
           /\ Before(idx) # {}
           /\ signals[MostRecent(idx)].type # type)
          => EmittedAs(idx, type)

\* A signal was emitted at the index right after a signal of the other type.
C5_Witness ==
    \E n \in 1..(Len(signals) - 1) :
      /\ signals[n].type # signals[n + 1].type
      /\ signals[n + 1].index = signals[n].index + 1

EventsAt(kind, idxs) ==
    {n \in 1..Len(btEvents) : btEvents[n][1] = kind /\ btEvents[n][2] \in idxs}

Walked == 0..(btIndex - 1)

\* The number of positions open after the SL/TP check of candle idx.
HeldAfterCheck(idx) ==
    Cardinality(EventsAt("open", 0..(idx - 1)))
      - Cardinality(EventsAt("close", 0..idx))

\* C7: at most one position is open at any time of the walk; the signal of
\* candle idx opens a position exactly when none is open after the SL/TP
\* check of that candle, so a signal at a candle where a position remains
\* open is skipped.
C7_AtMostOneOpenPosition ==
    /\ Cardinality(EventsAt("open", Walked))
         - Cardinality(EventsAt("close", Walked))
       = (IF openPos = <<>> THEN 0 ELSE 1)
    /\ Cardinality(EventsAt("close", Walked)) = Len(trades)
    /\ \A idx \in Walked :
         /\ HeldAfterCheck(idx) \in {0, 1}
         /\ Cardinality(EventsAt("open", {idx})) <= 1
         /\ EventsAt("open", {idx}) # {}
              <=> (HeldAfterCheck(idx) = 0 /\ FindSignal(signals, idx) # <<>>)

\* One position was closed and the next opened at the same candle, and a
\* later signal was skipped because that position was still open.
C7_Witness ==
    \E idx \in Walked, later \in Walked :
      /\ idx < later
      /\ EventsAt("close", {idx}) # {}
      /\ EventsAt("open", {idx}) # {}
      /\ FindSignal(signals, later) # <<>>
      /\ EventsAt("open", {later}) = {}
      /\ HeldAfterCheck(later) = 1

SlHit(pos, candle) ==
    IF pos.type = "BUY" THEN candle.low <= pos.sl ELSE candle.high >= pos.sl

TpHit(pos, candle) ==
    IF pos.type = "BUY" THEN candle.high >= pos.tp ELSE candle.low <= pos.tp

IsClose(event) == event[1] = "close"

\* The index of the candle that closed trades[m].
CloseIndex(m) == SelectSeq(btEvents, IsClose)[m][2]

\* C8: a position is checked only against the candles after its entry
\* candle, and is closed by the first of them that reaches its stop-loss or
\* its take-profit: at the stop-loss when the candle reaches it (also when
\* it reaches the take-profit too), else at the take-profit; the exit price
\* is exactly sl or tp.
C8_ExitAtFirstHitStopLossFirst ==
    /\ \A m \in 1..Len(trades) :
         LET t == trades[m]
             c == CloseIndex(m)
         IN  /\ c > t.entryTime
             /\ \A idx \in (t.entryTime + 1)..(c - 1) :
                  ~SlHit(t, data[idx]) /\ ~TpHit(t, data[idx])
             /\ IF SlHit(t, data[c])
                THEN t.exitReason = "Stop Loss" /\ t.exit = t.sl
                ELSE /\ TpHit(t, data[c])
                     /\ t.exitReason = "Take Profit"
                     /\ t.exit = t.tp
    /\ openPos # <<>> =>
         \A idx \in (openPos[1].entryTime + 1)..(btIndex - 1) :
           ~SlHit(openPos[1], data[idx]) /\ ~TpHit(openPos[1], data[idx])

\* A trade whose entry candle reached its stop-loss stayed open on that
\* candle and was closed at the stop-loss by a later candle whose range
\* covers both levels; another trade was closed at its take-profit.
C8_Witness ==
    /\ \E m \in 1..Len(trades) :
         /\ SlHit(trades[m], data[trades[m].entryTime])
         /\ SlHit(trades[m], data[CloseIndex(m)])
         /\ TpHit(trades[m], data[CloseIndex(m)])
         /\ trades[m].exit = trades[m].sl
    /\ \E m \in 1..Len(trades) : trades[m].exit = trades[m].tp

CurveMatches(curve, ts, start) ==
    /\ Len(curve) = Len(ts) + 1
    /\ curve[1].balance = start
    /\ \A n \in 1..Len(ts) : curve[n + 1].balance = ts[n].balanceAfter

\* C9: finalBalance = startBalance + the sum of pnl of the trades, and the
\* equity curve is the start balance followed by the balanceAfter of each
\* trade; the same holds of the running balance during the walk.
C9_BalanceExplainedByTrades ==
    /\ btPc = "walk" =>
         /\ btBalance = btReq.balance + SumPnl(trades, 1)
         /\ CurveMatches(equityCurve, trades, btReq.balance)
    /\ btResult # <<>> =>
         /\ btResult[1].finalBalance
              = btResult[1].startBalance + SumPnl(btResult[1].trades, 1)
         /\ btResult[1].startBalance = btReq.balance
         /\ CurveMatches(btResult[1].equityCurve, btResult[1].trades,
                         btResult[1].startBalance)

\* A finished backtest with a winning and a losing trade.
C9_Witness ==
    /\ btResult # <<>>
    /\ btResult[1].wins >= 1
    /\ btResult[1].losses >= 1
    /\ btResult[1].finalBalance # btResult[1].startBalance

\* C10: the pnl of every backtest trade is the pnl the ledger realizes for
\* the same side, pair, entry, exit and lot size.
C10_BacktestPnlIsLedgerPnl ==
    \A m \in 1..Len(trades) :
      trades[m].pnl = Pnl(trades[m].type, trades[m].pair, trades[m].entry,
                          trades[m].exit, btReq.lotSize)

\* The generator signal at the candle a backtest position was entered at
\* has the type and the entry price of the position.
FromGenerator(pos) ==
    \E n \in 1..Len(generateSignals(data, srLevels)) :
       LET s == generateSignals(data, srLevels)[n]
       IN  /\ data[s.index].time = pos.entryTime
           /\ s.type = pos.type
           /\ s.price = pos.entry

\* C11: once processData has returned, the signals the backtest walks with
\* are the signals generateSignals returns for the enriched candles, and
\* every backtest trade, like the position still open, has the type and
\* the entry price of the generator signal at its entry candle.
C11_BacktestTradesFollowGenerator ==
    /\ btPc \in {"walk", "done"} => signals = generateSignals(data, srLevels)
    /\ \A k \in 1..Len(trades) : FromGenerator(trades[k])
    /\ openPos # <<>> => FromGenerator(openPos[1])

\* A finished backtest with a BUY trade and a SELL trade.
C11_Witness ==
    /\ btPc = "done"
    /\ \E j, k \in 1..Len(trades) :
          trades[j].type = "BUY" /\ trades[k].type = "SELL"

\* The ticks arrived in the order of their timestamps.
NonDecreasing(ts) ==
    \A k \in 1..(Len(ts) - 1) : ts[k].timestamp <= ts[k + 1].timestamp

\* The indices of the ticks in the interval bucket of the latest tick.
LatestBucket(ts) ==
    {k \in 1..Len(ts) :
       ts[k].timestamp \div IntervalMs = ts[Len(ts)].timestamp \div IntervalMs}

RECURSIVE VolumeOf(_, _, _)
VolumeOf(ts, bucket, k) ==
    IF k > Len(ts) THEN 0
    ELSE (IF k \in bucket THEN ts[k].volume ELSE 0) + VolumeOf(ts, bucket, k + 1)

\* C12: after ticks with non-decreasing timestamps on an empty aggregator,
\* the in-progress candle starts at the interval boundary at or before the
\* latest tick, opens at the first price of that bucket, closes at the last,
\* has the maximum and the minimum of the bucket's prices as high and low
\* and the sum of its volumes as volume; so low <= open, close <= high.
C12_CurrentCandleSummarisesBucket ==
    (ticks # <<>> /\ NonDecreasing(ticks)) =>
      /\ currentCandle # <<>>
      /\ LET candle == currentCandle[1]
             latest == ticks[Len(ticks)]
             bucket == LatestBucket(ticks)
             first  == CHOOSE k \in bucket : \A j \in bucket : k <= j
         IN  /\ candle.time = (latest.timestamp \div IntervalMs) * IntervalMs
             /\ candle.time <= latest.timestamp
             /\ latest.timestamp < candle.time + IntervalMs
             /\ candle.open = ticks[first].price
             /\ candle.close = latest.price
             /\ \E k \in bucket : candle.high = ticks[k].price
             /\ \A k \in bucket : candle.high >= ticks[k].price
             /\ \E k \in bucket : candle.low = ticks[k].price
             /\ \A k \in bucket : candle.low <= ticks[k].price
             /\ candle.volume = VolumeOf(ticks, bucket, 1)
             /\ candle.low <= candle.open /\ candle.open <= candle.high
             /\ candle.low <= candle.close /\ candle.close <= candle.high

\* Three ticks of one bucket in the order of their timestamps, the second
\* the highest and the third the lowest, each with a volume.
C12_Witness ==
    /\ Len(ticks) = 3
    /\ NonDecreasing(ticks)
    /\ LatestBucket(ticks) = {1, 2, 3}
    /\ ticks[1].timestamp < ticks[3].timestamp
    /\ ticks[2].price > ticks[1].price
    /\ ticks[3].price < ticks[1].price
    /\ \A k \in 1..3 : ticks[k].volume > 0
    /\ currentCandle # <<>>
    /\ currentCandle[1].high > currentCandle[1].open
    /\ currentCandle[1].close < currentCandle[1].open
    /\ currentCandle[1].volume = 9

\* C13: after any sequence of addTick calls, whatever the order of the tick
\* timestamps, the candles getCandles returns are in strictly increasing
\* order of time, so no two of them belong to the same interval bucket.
C13_CandlesStrictlyIncreasing ==
    LET all == GetCandles(Aggregator(currentCandle, candles), CandleCount)
    IN  \A k \in 1..(Len(all) - 1) : all[k].time < all[k + 1].time

\* C14: every tick handed to handleLiveTick is processed to the end of the
\* handler: the call returns, and updatePositions has been called with the
\* symbol and the price of the tick, on a tick with a new signal as on any
\* other.
C14_EveryTickFullyProcessed ==
    /\ \A k \in 1..Len(processed) : processed[k]
    /\ ticks # <<>> =>
         lastPrices[ticks[Len(ticks)].symbol] = ticks[Len(ticks)].price

\* The pair, the side, the lot size and the balance a position may be opened
\* with, as validateTradeParams and the two sides of the ledger have them.
ValidOrder(pos, bal) ==
    /\ pos.pair \in SUPPORTED_PAIRS
    /\ pos.type \in Types
    /\ pos.lotSize >= 1 /\ pos.lotSize <= 10
    /\ bal >= pos.lotSize * MarginPerTenth

\* C15: whichever request opened it, a position on the ledger has a
\* supported pair, the side BUY or SELL and a lot size from 0.01 to 1.0, and
\* the position a request has just opened is covered by the balance.
C15_OnlyValidatedOrdersReachLedger ==
    /\ \A k \in 1..Len(openPositions) :
         /\ openPositions[k].pair \in SUPPORTED_PAIRS
         /\ openPositions[k].type \in Types
         /\ openPositions[k].lotSize >= 1 /\ openPositions[k].lotSize <= 10
    /\ ( /\ reply \in {"Order Placed", "Trade Opened", "opened"}
         /\ returned # <<>>
         /\ "exitReason" \notin DOMAIN returned[1] )
         => ValidOrder(returned[1], balance)

\* C16: a call updatePositions(pair, price) closes no position of another
\* pair: every open position whose pair differs from the pair of the tick is
\* still open after the call, and every trade the call returns or adds to
\* the trade log is of the pair of the tick.
C16_OtherPairsStayOpen ==
    [][ \A pair \in Pairs, price \in MarkPrices :
          updatePositions(pair, price) =>
            /\ \A k \in 1..Len(openPositions) :
                 openPositions[k].pair # pair =>
                   \E j \in 1..Len(openPositions') :
                      openPositions'[j].id = openPositions[k].id
            /\ \A n \in 1..Len(returned') : returned'[n].pair = pair
            /\ \A n \in (Len(tradeLog) + 1)..Len(tradeLog') :
                 tradeLog'[n].pair = pair ]_vars

\* A position is open although the price it is marked with lies beyond its
\* stop-loss or its take-profit: a tick of the other pair marked it with the
\* last price of its own pair.
C16_Witness ==
    \E k \in 1..Len(openPositions) :
       LET pos == openPositions[k]
       IN  /\ Trigger(pos, pos.currentPrice) # NULL
           /\ pos.currentPrice = lastPrices[pos.pair]
           /\ \E other \in Pairs \ {pos.pair} : lastPrices[other] # 0

\* The record position id has become in a call of updatePositions: the open
\* position, or the trade closed in the call.
AfterCall(id, open, closed) ==
    IF \E j \in 1..Len(open) : open[j].id = id
    THEN open[CHOOSE j \in 1..Len(open) : open[j].id = id]
    ELSE closed[CHOOSE n \in 1..Len(closed) : closed[n].id = id]

\* (price - entry) * lotSize * contractSize for a BUY, the opposite
\* difference otherwise.
PnlAt(pos, price) ==
    IF pos.type = "BUY"
    THEN (price - pos.entry) * pos.lotSize * getContractSize(pos.pair)
    ELSE (pos.entry - price) * pos.lotSize * getContractSize(pos.pair)

\* C17: in a call updatePositions(pair, price), every open position of the
\* pair of the tick gets currentPrice = price; every open position of
\* another pair gets the last price recorded for its own pair (and keeps the
\* currentPrice it has while none is recorded), never the incoming price as
\* such; and the pnl of every position is the pnl at that currentPrice.
C17_MarkedAtOwnPairPrice ==
    [][ \A pair \in Pairs, price \in MarkPrices :
          updatePositions(pair, price) =>
            \A k \in 1..Len(openPositions) :
               LET pos == openPositions[k]
                   after == AfterCall(pos.id, openPositions', returned')
               IN  /\ pos.pair = pair => after.currentPrice = price
                   /\ (pos.pair # pair /\ lastPrices[pos.pair] # 0) =>
                        after.currentPrice = lastPrices[pos.pair]
                   /\ (pos.pair # pair /\ lastPrices[pos.pair] = 0) =>
                        after.currentPrice = pos.currentPrice
                   /\ after.pnl = PnlAt(pos, after.currentPrice) ]_vars

\* Two open positions of different pairs, one marked with the price of the
\* tick of its pair, the other with the different price recorded for its own
\* pair, at a loss or a profit.
C17_Witness ==
    \E j, k \in 1..Len(openPositions) :
       LET p == openPositions[j]
           q == openPositions[k]
       IN  /\ p.pair # q.pair
           /\ p.currentPrice = lastPrices[p.pair]
           /\ q.currentPrice = lastPrices[q.pair]
           /\ p.currentPrice # q.currentPrice
           /\ q.currentPrice # q.entry
           /\ q.pnl = PnlAt(q, q.currentPrice)
           /\ q.pnl # 0

\* The records of a sequence with this id have this sl and this tp.
SameStops(seq, id, sl, tp) ==
    \A j \in 1..Len(seq) : seq[j].id = id => (seq[j].sl = sl /\ seq[j].tp = tp)

\* C18: the sl and the tp of a position are those openTrade computed from
\* the entry price, and no call changes them: after any step, a position
\* that was open has the same sl and tp, whether it is still open or in the
\* trade log, and the trades already in the log keep theirs.
C18_StopsFixedAtOpen ==
    [][ /\ \A k \in 1..Len(openPositions) :
             LET pos == openPositions[k]
             IN  /\ SameStops(openPositions', pos.id, pos.sl, pos.tp)
                 /\ SameStops(tradeLog', pos.id, pos.sl, pos.tp)
                 /\ SameStops(returned', pos.id, pos.sl, pos.tp)
        /\ \A k \in 1..Len(tradeLog) :
             SameStops(tradeLog', tradeLog[k].id, tradeLog[k].sl, tradeLog[k].tp)
        /\ \A k \in 1..Len(openPositions') :
             LET pos == openPositions'[k]
             IN  (~\E j \in 1..Len(openPositions) : openPositions[j].id = pos.id)
                   => /\ pos.sl = (IF pos.type = "BUY"
                                   THEN pos.entry - (pos.entry * 2) \div 1000
                                   ELSE pos.entry + (pos.entry * 2) \div 1000)
                      /\ pos.tp = (IF pos.type = "BUY"
                                   THEN pos.entry + (pos.entry * 4) \div 1000
                                   ELSE pos.entry - (pos.entry * 4) \div 1000)
      ]_vars

\* A BUY was marked by ticks and then closed, and its trade has the stops of
\* the open: 0.2% below and 0.4% above the entry price.
C18_Witness ==
    \E k \in 1..Len(tradeLog) :
       /\ tradeLog[k].type = "BUY"
       /\ tradeLog[k].currentPrice # tradeLog[k].entry
       /\ tradeLog[k].exitReason = "Manual Close"
       /\ tradeLog[k].sl = 199600
       /\ tradeLog[k].tp = 200800

\* C19: the id openTrade gives the next position is above the id of every
\* position of the ledger, open or closed, so a position returned by
\* openTrade shares its id with no position opened before it; this holds
\* across openTrade, updatePositions and closePosition and after a start of
\* the server that loads the ledger from the file.
C19_IdsNeverReused ==
    /\ \A id \in Ids(openPositions) \cup Ids(tradeLog) : id < nextId
    /\ \A id \in 1..nextId :
         Occurrences(openPositions, id) + Occurrences(tradeLog, id) <= 1
    /\ (returned # <<>> /\ "exitReason" \notin DOMAIN returned[1]) =>
         /\ returned[1].id = nextId - 1
         /\ Occurrences(openPositions, returned[1].id)
              + Occurrences(tradeLog, returned[1].id) = 1

\* The server was started from a file that holds a closed trade, and
\* openTrade has returned a position since.
C19_Witness ==
    /\ snapshot # <<>>
    /\ reply = "loaded"
    /\ snapshot[1].tradeLog # <<>>
    /\ tradeLog # <<>>
    /\ returned # <<>>
    /\ "exitReason" \notin DOMAIN returned[1]
    /\ returned[1].id > tradeLog[1].id
    /\ \E k \in 1..Len(openPositions) : openPositions[k] = returned[1]

\* C20: closePosition with an id that is not among the open positions,
\* because it was never opened or is closed already, returns null and
\* leaves the balance, the open positions and the trade log as they are;
\* POST /api/trade/close then answers that the position was not found.
C20_UnknownIdClosesNothing ==
    [][ \A id \in 1..(MaxTrades + 1), price \in ClosePrices :
          (~\E k \in 1..Len(openPositions) : openPositions[k].id = id) =>
            /\ (closePosition(id, price) \/ apiTradeClose(id, price)) =>
                 /\ returned' = <<>>
                 /\ balance' = balance
                 /\ openPositions' = openPositions
                 /\ tradeLog' = tradeLog
            /\ apiTradeClose(id, price) => reply' = "Position not found"
      ]_vars

\* A close was asked for and no position found, with a position open and
\* another closed before.
C20_Witness ==
    /\ reply = "Position not found"
    /\ returned = <<>>
    /\ openPositions # <<>>
    /\ tradeLog # <<>>
    /\ balance # startingBalance


\* The record saveTradingState writes for the ledger as it is.
Serialized ==
    [ balance         |-> balance,
      startingBalance |-> startingBalance,
      openPositions   |-> openPositions,
      tradeLog        |-> tradeLog ]

\* C21: saveTradingState writes the balance, the starting balance, the open
\* positions and the trade log of the ledger to the file, and
\* loadTradingState on a file gives the ledger exactly the four values the
\* file holds, whatever they are.
C21_SaveThenLoadRestoresLedger ==
    [][ /\ saveTradingState => snapshot' = <<Serialized>>
        /\ (loadTradingState /\ snapshot # <<>>) =>
             /\ balance' = snapshot[1].balance
             /\ startingBalance' = snapshot[1].startingBalance
             /\ openPositions' = snapshot[1].openPositions
             /\ tradeLog' = snapshot[1].tradeLog
      ]_vars


\* ------------------------------------------------------------------------
\* Properties of the scores of generateSignals
\* ------------------------------------------------------------------------

\* The candle at idx is within the cooldown of a signal of the type.
InCooldown(idx, type) ==
    /\ Before(idx) # {}
    /\ signals[MostRecent(idx)].type = type
    /\ idx - signals[MostRecent(idx)].index < COOLDOWN_CANDLES

\* C22: a scanned candle with its indicators available is a BUY exactly
\* when its totalScore is at least 3 and a SELL exactly when it is at most
\* -3 (emitted unless the cooldown suppresses it), and no signal otherwise;
\* every emitted signal has |score| >= 3 and a confidence of
\* min(100, |score| * 20), which is at least 60.
C22_SignalExactlyAtThreshold ==
    /\ \A idx \in Scanned :
         ~Skipped(data[idx]) =>
           LET total2 == TotalScore2(data, srLevels, idx)
           IN  /\ total2 >= 6 =>
                    /\ ~EmittedAs(idx, "SELL")
                    /\ EmittedAs(idx, "BUY") \/ InCooldown(idx, "BUY")
               /\ total2 <= -6 =>
                    /\ ~EmittedAs(idx, "BUY")
                    /\ EmittedAs(idx, "SELL") \/ InCooldown(idx, "SELL")
               /\ (-6 < total2 /\ total2 < 6) => ~Emitted(idx)
    /\ \A n \in 1..Len(signals) :
         LET s == signals[n]
         IN  /\ s.score2 = TotalScore2(data, srLevels, s.index)
             /\ Abs(s.score2) >= 6
             /\ s.confidence = Min(100, Abs(s.score2) * 10)
             /\ s.confidence >= 60
             /\ s.type = (IF s.score2 >= 6 THEN "BUY" ELSE "SELL")

\* The scan is over: the candle with a totalScore of exactly 3 was emitted
\* as a BUY of confidence 60.
C22_Witness ==
    /\ scanIndex = Length(data)
    /\ \E n \in 1..Len(signals) :
         /\ signals[n].score2 = 6
         /\ signals[n].type = "BUY"
         /\ signals[n].confidence = 60

\* The scanned candles with the given rsi.
WithRsi(rsi) ==
    {idx \in Scanned : ~Skipped(data[idx]) /\ Val(data[idx].rsi) = rsi}

\* What the rsi adds to the score of the signal emitted at idx, in halves.
RsiPart(idx) ==
    LET s == signals[CHOOSE n \in 1..Len(signals) : signals[n].index = idx]
    IN  s.score2 - 2 * SrScore(data[idx], srLevels, 1)
          - MacdScore2(data[idx], data[idx - 1])

\* C23 as stated: the RSI score of a candle whose rsi is exactly 30 or
\* exactly 70 is 0.
C23_BorderRsiScoresZero ==
    \A idx \in WithRsi(30) \cup WithRsi(70) :
      /\ RsiScore(data[idx]) = 0
      /\ Emitted(idx) => RsiPart(idx) = 0

\* C23: the RSI score of a candle whose rsi is exactly 30 is +1 and of a
\* candle whose rsi is exactly 70 is -1: the borders belong to the bands of
\* +1 (30 <= rsi < 40) and -1 (60 < rsi <= 70), not to those of +2 and -2.
C23_BorderRsiScoresOne ==
    /\ \A idx \in WithRsi(30) :
         /\ RsiScore(data[idx]) = 1
         /\ Emitted(idx) => RsiPart(idx) = 2
    /\ \A idx \in WithRsi(70) :
         /\ RsiScore(data[idx]) = -1
         /\ Emitted(idx) => RsiPart(idx) = -2

\* The scan is over: a candle at the support with an rsi of exactly 30 and
\* no MACD score was emitted with a score of 3 + 1.
C23_Witness ==
    /\ scanIndex = Length(data)
    /\ \E idx \in WithRsi(30) :
         /\ Emitted(idx)
         /\ SrScore(data[idx], srLevels, 1) = 3
         /\ MacdScore2(data[idx], data[idx - 1]) = 0
         /\ RsiPart(idx) = 2
         /\ EmittedAs(idx, "BUY")


\* ------------------------------------------------------------------------
\* Properties of the indicators
\* ------------------------------------------------------------------------

\* The candles of currentData the scan of generateSignals reaches.
Reached == {i \in DOMAIN currentData : i >= StartIndex}

BtDone == btPc = "done" /\ btResult # <<>>

\* C25: a backtest over zero candles, or over candles that produce zero
\* signals, answers with an empty trade list, wins = losses = 0, totalPnl = 0,
\* winRate = 0, avgWin = avgLoss = 0, profitFactor = 0, maxDrawdown = 0 and
\* finalBalance = startBalance.
C25_EmptyBacktestIsZeroed ==
    (BtDone /\ (Length(data) = 0 \/ signals = <<>>)) =>
        LET r == btResult[1]
        IN  /\ r.trades = <<>>
            /\ r.wins = 0
            /\ r.losses = 0
            /\ r.totalPnl = 0
            /\ r.winRate = Number(0)
            /\ r.avgWin = Number(0)
            /\ r.avgLoss = Number(0)
            /\ r.profitFactor = Number(0)
            /\ r.maxDrawdown = 0
            /\ r.finalBalance = r.startBalance
            /\ r.equityCurve = <<[trade |-> 0, balance |-> r.startBalance]>>

\* A request over no candles at all has been answered.
C25_Witness == BtDone /\ Length(data) = 0 /\ btResult[1].trades = <<>>

\* The pnl of the trades that made something or nothing, and of those that
\* lost.
RECURSIVE SumWhere(_, _, _)
SumWhere(ts, k, losing) ==
    IF k > Len(ts) THEN 0
    ELSE (IF (ts[k].pnl < 0) = losing THEN ts[k].pnl ELSE 0)
         + SumWhere(ts, k + 1, losing)

\* The profit factor of the trades, by the sign of their pnl.
IsProfitFactorOf(pf, ts) ==
    LET losing  == \E k \in 1..Len(ts) : ts[k].pnl < 0
        winning == \E k \in 1..Len(ts) : ts[k].pnl >= 0
    IN  IF losing
        THEN /\ pf.kind = "number"
             /\ pf.den # 0
             /\ pf.num = Abs(SumWhere(ts, 1, FALSE))
             /\ pf.den = Abs(SumWhere(ts, 1, TRUE))
        ELSE IF winning THEN pf = Infinity
        ELSE pf = Number(0)

\* getStats has just returned.
StatsReturned == returned # <<>> /\ "totalTrades" \in DOMAIN returned[1]

\* C26: profitFactor, of a backtest result and of getStats, is |sum of
\* winning pnl / sum of losing pnl| when there is a loss, +Infinity when there
\* are wins and no losses, and 0 when there are neither; the division never
\* has a zero denominator, a trade being a LOSS only when its pnl is
\* strictly negative.
C26_ProfitFactorDefined ==
    /\ BtDone => IsProfitFactorOf(btResult[1].profitFactor, btResult[1].trades)
    /\ StatsReturned => IsProfitFactorOf(returned[1].profitFactor, tradeLog)
    /\ \A k \in 1..Len(tradeLog) :
         tradeLog[k].result = "LOSS" <=> tradeLog[k].pnl < 0
    /\ \A k \in 1..Len(trades) :
         trades[k].result = "LOSS" <=> trades[k].pnl < 0

\* getStats has returned for a log with a loss and a trade that made
\* nothing.
C26_Witness ==
    /\ StatsReturned
    /\ \E k \in 1..Len(tradeLog) : tradeLog[k].pnl < 0
    /\ \E k \in 1..Len(tradeLog) : tradeLog[k].pnl = 0
    /\ returned[1].profitFactor.num = 0


\* ------------------------------------------------------------------------
\* CandleAggregator: getCandles and loadHistory
\* ------------------------------------------------------------------------

\* The last n elements of a sequence of at least n elements.
LastElements(seq, n) == SubSeq(seq, Len(seq) - n + 1, Len(seq))

\* What getCandles(n) returned is at most n candles, the last
\* min(n, length) of the completed candles followed by the in-progress one.
ReturnsLast(n) ==
    getCandles(n) =>
        LET all == candles \o currentCandle
        IN  /\ Len(returned'[1].candles) <= n
            /\ returned'[1].candles = LastElements(all, Min(n, Len(all)))

\* C27: for every n >= 0, getCandles(n) returns at most n candles: the last
\* min(n, length) of the completed candles followed by the in-progress
\* candle, in order.
C27_GetCandlesReturnsAtMostN == [][\A n \in Counts : ReturnsLast(n)]_vars

\* The same for every n >= 1.
C27_PositiveCounts == [][\A n \in Counts \ {0} : ReturnsLast(n)]_vars

\* C28: after loadHistory(h) with a non-empty h on a fresh aggregator, the
\* last candle of h is the in-progress candle and the others are completed,
\* getCandles returns h and length is the length of h; the first tick after
\* it updates that candle (high, low, close, volume) when it falls in its
\* bucket, and otherwise appends it to the completed candles and starts a new
\* candle.
C28_LoadedHistoryContinues ==
    [][ /\ \A h \in Histories :
             (h # <<>> /\ loadHistory(h)) =>
                 /\ currentCandle' = <<h[Len(h)]>>
                 /\ candles' = SubSeq(h, 1, Len(h) - 1)
                 /\ GetCandles(Aggregator(currentCandle', candles'), 200) = h
                 /\ AggregatorLength(Aggregator(currentCandle', candles'))
                      = Len(h)
        /\ \A tick \in HistoryTicks :
             (ticks = <<>> /\ currentCandle # <<>> /\ addTick(tick)) =>
                 LET last == currentCandle[1]
                 IN  IF CandleStart(tick.timestamp) = last.time
                     THEN /\ candles' = candles
                          /\ currentCandle'[1].time = last.time
                          /\ currentCandle'[1].open = last.open
                          /\ currentCandle'[1].high = Max(last.high, tick.price)
                          /\ currentCandle'[1].low = Min(last.low, tick.price)
                          /\ currentCandle'[1].close = tick.price
                          /\ currentCandle'[1].volume
                               = last.volume + tick.volume
                     ELSE /\ candles' = Append(candles, last)
                          /\ currentCandle'[1].time = CandleStart(tick.timestamp)
                          /\ currentCandle'[1].open = tick.price
                          /\ currentCandle'[1].high = tick.price
                          /\ currentCandle'[1].low = tick.price
                          /\ currentCandle'[1].close = tick.price
                          /\ currentCandle'[1].volume = tick.volume
      ]_vars

\* A history of two candles was loaded and the first tick fell in the bucket
\* of its last candle.
C28_Witness ==
    /\ Len(ticks) = 1
    /\ candles = <<HistoryCandle(1740000)>>
    /\ currentCandle # <<>>
    /\ currentCandle[1].time = 1800000
    /\ currentCandle[1].volume = 8
    /\ currentCandle[1].close = ticks[1].price


\* ------------------------------------------------------------------------
\* calcSupportResistance: the clusters
\* ------------------------------------------------------------------------

\* The pivots of the candles, in the order the pivot loop pushes them.
Pivots == PivotsFrom(RawCandles(data), Lookback, Lookback, <<>>)

\* The levels are computed.
LevelsComputed == srLevels # <<>>

\* Two pivots are among the pivots of one level.
SameLevel(i, j) ==
    \E n \in 1..Len(KeptGroups(Pivots)) : {i, j} \subseteq KeptGroups(Pivots)[n]

\* p is less than 0.2% of q away from q.
Within(p, q) == Abs(p - q) * 1000 < 2 * q

Clusters == GroupsFrom(Pivots, 1, {}, <<>>)

\* The first pivot of a cluster.
Representative(cluster) == CHOOSE r \in cluster : \A j \in cluster : r <= j

\* The pivots clustered before the n-th cluster.
UsedBefore(n) == UNION {Clusters[m] : m \in 1..(n - 1)}

Backoff ==
    <<1000, 2000, 4000, 8000, 16000, 30000, 30000, 30000, 30000, 30000>>

\* The socket closes in this step.
Closes == ws # "closed" /\ ws' = "closed"

\* The timer calls connect in this step.
Reconnects == timer # <<>> /\ timer' = <<>> /\ ws' = "connecting"

\* C30: after the socket closes, a stream that was not disconnected
\* schedules a reconnect after min(30 s, 2^attempts s), and connects no
\* sooner; it makes at most 10 consecutive reconnect attempts without an
\* open; and the attempt counter is 0 whenever a connection opens.
C30_ReconnectBackoff ==
    [][ /\ (Closes /\ maxReconnects = MaxReconnects) =>
             IF reconnectAttempts < 10
             THEN /\ timer' = << [ delay   |-> Backoff[reconnectAttempts + 1],
                                   elapsed |-> 0 ] >>
                  /\ reconnectAttempts' = reconnectAttempts + 1
             ELSE timer' = <<>> /\ reconnectAttempts' = reconnectAttempts
        /\ Reconnects => timer[1].elapsed = timer[1].delay
        /\ reconnects' <= 10
        /\ (ws # "open" /\ ws' = "open") =>
             reconnectAttempts' = 0 /\ reconnects' = 0
      ]_vars

\* Ten reconnects in a row have failed: the last close scheduled nothing.
C30_Witness ==
    /\ maxReconnects = MaxReconnects
    /\ reconnects = 10
    /\ reconnectAttempts = 10
    /\ ws = "closed"
    /\ timer = <<>>


\* C38: after disconnect() has been called no new connection is ever opened:
\* a reconnect timer scheduled by an earlier close does not reconnect, and
\* isConnected() stays false.
C38_NoConnectionAfterDisconnect ==
    [][ Disconnected =>
          /\ ~(ws # "connecting" /\ ws' = "connecting")
          /\ ~isConnected' ]_vars


\* ------------------------------------------------------------------------
\* TwelveDataStream: subscriptions
\* ------------------------------------------------------------------------

\* The socket opens in this step.
Opens == ws # "open" /\ ws' = "open"

\* C31: whenever the socket opens or re-opens, a subscribe message is sent
\* for every symbol that has subscribers, and for no other: a symbol
\* subscribed while the socket was down is subscribed once the connection is
\* open, a symbol removed by unsubscribe is not; and while the socket is open
\* the symbols subscribed on it are those that have subscribers.
C31_ResubscribedOnOpen ==
    [][ /\ Opens =>
             /\ \A symbol \in Pairs :
                  symbol \in remote' <=> symbol \in DOMAIN subscribers
             /\ subscribers' = subscribers
        /\ ws' = "open" => remote' = DOMAIN subscribers'
      ]_vars

\* The socket has re-opened with one symbol subscribed that was subscribed
\* while it was down, the other symbol having been removed.
C31_Witness ==
    /\ ws = "open"
    /\ reconnects = 0
    /\ reconnectAttempts = 0
    /\ Cardinality(remote) = 1
    /\ remote = DOMAIN subscribers


\* ------------------------------------------------------------------------
\* Mode control
\* ------------------------------------------------------------------------

\* The tick delivered last reached handleLiveTick.
Processed == delivered # <<>> /\ delivered[1].calls > 0

\* C35: once /api/mode/stop has completed no tick is processed by
\* handleLiveTick, from the simulated timer or from the stream, until a mode
\* is started again: no tick is processed while the mode is STOP.
C35_NoTickProcessedWhileStopped ==
    Processed => delivered[1].mode # "STOP"

\* C36: each tick delivered by the stream or by the timer is processed by
\* handleLiveTick exactly once: the handler is never registered twice for a
\* symbol and two tick timers never run at once.
C36_TickProcessedOnce ==
    /\ delivered # <<>> => delivered[1].calls = 1
    /\ \A symbol \in DOMAIN subscribers : subscribers[symbol] <= 1
    /\ simulationInterval <= 1


\* ------------------------------------------------------------------------
\* signalHistory
\* ------------------------------------------------------------------------

\* The entries a step appends to signalHistory.
Appended ==
    { signalHistory'[k] : k \in Len(signalHistory) + 1..Len(signalHistory') }

\* C39: every signal a tick appends to signalHistory is attributed to the
\* pair whose ticks produced it: its pair is the symbol of the tick being
\* processed, whatever requests have changed currentPair in between.
C39_SignalPairIsTickSymbol ==
    [][ticks' # ticks =>
         \A s \in Appended : s.pair = ticks'[Len(ticks')].symbol]_vars

\* C40: across successive ticks a live signal, identified by its candle time
\* and type, is appended to signalHistory (and counted) at most once.
C40_SignalAppendedOnce ==
    \A k, l \in 1..Len(signalHistory) :
       /\ signalHistory[k].time = signalHistory[l].time
       /\ signalHistory[k].type = signalHistory[l].type
       => k = l


\* ------------------------------------------------------------------------
\* fetchWithRetry
\* ------------------------------------------------------------------------

\* A call of fetchWithRetry with the default number of retries.
DefaultCall == fetchCall.maxRetries = DefaultMaxRetries

\* The call has ended: it has returned the response or thrown.
FetchEnded == fetchCall.pc \in {"returned", "thrown"}

\* The waits of the backoff: 1 s, 2 s, 4 s.
BackoffWaits == <<1 * Second, 2 * Second, 4 * Second>>

\* The first n elements of a sequence.
FirstN(seq, n) == [k \in 1..n |-> seq[k]]

\* C32: fetchWithRetry answers 429 with exponential backoff: after the
\* initial request it retries up to 3 times, waiting 1 s, 2 s and 4 s before
\* the successive retries, and then fails with an error; a response other
\* than 429 is returned at once; and the call always ends.
C32_BackoffThreeRetries ==
    /\ [](DefaultCall /\ fetchCall.pc = "fetching" =>
            /\ fetchCall.requests <= 1 + DefaultMaxRetries
            /\ fetchCall.waits = FirstN(BackoffWaits, fetchCall.requests - 1))
    /\ [](DefaultCall /\ fetchCall.pc = "thrown" =>
            /\ fetchCall.requests = 1 + DefaultMaxRetries
            /\ fetchCall.waits = BackoffWaits)
    /\ [](DefaultCall /\ fetchCall.pc = "returned" =>
            /\ fetchCall.status # 429
            /\ Len(fetchCall.waits) = fetchCall.requests - 1)
    /\ (fetchCall.pc \in {"fetching", "waiting"} ~> FetchEnded)


\* What the code does: a call makes at most maxRetries requests, the wait
\* after the last 429 is followed by the error and not by a request, and
\* every call ends.
FetchGivesUpAfterMaxRequests ==
    /\ [](fetchCall.pc = "thrown" =>
            /\ fetchCall.requests = fetchCall.maxRetries
            /\ Len(fetchCall.waits) = fetchCall.maxRetries)
    /\ [](fetchCall.pc = "returned" =>
            /\ fetchCall.status # 429
            /\ Len(fetchCall.waits) = fetchCall.requests - 1)
    /\ (fetchCall.pc \in {"fetching", "waiting"} ~> FetchEnded)


\* ------------------------------------------------------------------------
\* Market hours
\* ------------------------------------------------------------------------

\* The hours since Sunday 00:00 UTC.
HourOfWeek(now) == now.day * 24 + now.hour

\* The weekly trading window: from Sunday 22:00 UTC to Friday 22:00 UTC.
InTradingWindow(now) ==
    HourOfWeek(now) >= 22 /\ HourOfWeek(now) < 5 * 24 + 22

FromConfiguredChat(update) == update.id = NumberId(42)

\* A position is opened or closed, or the active pair or the alert setting
\* changes.
Acts ==
    \/ openPositions' # openPositions
    \/ tradeLog' # tradeLog
    \/ activePair' # activePair
    \/ currentPair' # currentPair
    \/ alertsEnabled' # alertsEnabled

\* C33: the command handler acts only on updates of the configured chat: a
\* command or a button whose chat or sender id differs from TELEGRAM_CHAT_ID
\* is given to no handler and never opens or closes a position or changes
\* the active pair or the alert setting.
C33_OnlyConfiguredChatActs ==
    [][/\ \A k \in Len(handled) + 1..Len(handled') :
            FromConfiguredChat(updates[handled'[k]])
       /\ Acts => /\ Len(handled') = Len(handled) + 1
                  /\ FromConfiguredChat(updates[handled'[Len(handled')]])]_vars

\* A /buy of a stranger has been passed over and has opened nothing, and a
\* command of the configured chat after it has been handled.
C33_Witness ==
    /\ Len(updates) = 2
    /\ ~FromConfiguredChat(updates[1])
    /\ updates[1].text = "/buy XAU/USD 0.1"
    /\ updates[2].text = "/alerts"
    /\ lastUpdateId = 2
    /\ handled = <<2>>
    /\ openPositions = <<>>
    /\ ~alertsEnabled

\* C37: each Telegram update is handled at most once, checkUpdates being
\* started again while an earlier call still awaits a handler: no update_id
\* is given to a handler twice, so one /buy opens one position.
C37_UpdateHandledOnce ==
    \A k, l \in 1..Len(handled) : handled[k] = handled[l] => k = l

====
